---------------------------- MODULE Spec2Model ----------------------------
(***************************************************************************)
(* Verification model of the rotation core of the Coronium proxy MCP       *)
(* server: the proxy identifier resolver, the per-proxy rotation workflow  *)
(* (RotationManager.rotateProxy), the batch fan-out                        *)
(* (rotateMultipleProxies), the rotation history store and the             *)
(* coronium_rotate_modem tool handler.                                     *)
(*                                                                         *)
(* Strings the code inspects character by character (proxy names, ids,     *)
(* identifiers, filter tokens) are sequences of one-character strings, so  *)
(* that toLowerCase, split, startsWith and includes are computed.  Strings *)
(* the code only compares as a whole (IP addresses, sentinels) are TLA+    *)
(* strings.                                                                *)
(***************************************************************************)
EXTENDS Integers, Sequences, FiniteSets, TLC

VARIABLES
    rProxies,     \* resolver: the proxy list passed to findProxyByIdentifier
    rIdentifier,  \* resolver: the identifier passed to it
    rFound,       \* resolver: the list it returned
    rPc,          \* resolver: "call" before the call, "returned" after
    targets,      \* rotation: the proxies handed to rotateProxy, one workflow each
    apiAvail,     \* rotation: whether apiClient and authToken were passed
    wf,           \* rotation: wf[k] is the state of the rotateProxy call for targets[k]
    ctl,          \* rotation: the state of rotateMultipleProxies (loop index, results)
    obs,          \* rotation: obs[k] is the record of what workflow k did (requests
                  \*           sent, time waited), for the workflows that are observed
    histFile,     \* history: the entries stored in rotation_history.json
    histAppended, \* history: every entry handed to addRotation so far, in call order
    histRead,     \* history: what the last getHistory / getLastRotation call returned
    savers,       \* history: the history loops of concurrent rotate operations
    tokenStore,   \* handler: the token in the token store, Absent if none
    hPc,          \* handler: position of the coronium_rotate_modem call
    parsed,       \* handler: the arguments of the call
    fetched,      \* handler: the account listing the call fetched (its `proxies`)
    response,     \* handler: what the call returned to the caller
    retry         \* retry: the state of one retryWithBackoff call

rvars == <<rProxies, rIdentifier, rFound, rPc>>
wvars == <<targets, apiAvail, wf, ctl, obs>>
hvars == <<histFile, histAppended, histRead, savers>>
avars == <<tokenStore, hPc, parsed, fetched, response>>
bvars == <<retry>>
vars  == <<rvars, wvars, hvars, avars, bvars>>

-----------------------------------------------------------------------------
(* Character strings                                                        *)

\* String.prototype.toLowerCase on one character
LowerChar(c) ==
    CASE c = "A" -> "a" [] c = "D" -> "d" [] c = "E" -> "e" [] c = "P" -> "p"
      [] c = "S" -> "s" [] c = "U" -> "u" [] c = "X" -> "x" [] c = "O" -> "o"
      [] OTHER -> c

ToLowerCase(s) == [i \in 1..Len(s) |-> LowerChar(s[i])]

\* String.prototype.startsWith
StartsWith(s, prefix) ==
    /\ Len(prefix) <= Len(s)
    /\ SubSeq(s, 1, Len(prefix)) = prefix

\* String.prototype.includes
Includes(s, part) ==
    \E i \in 0..(Len(s) - Len(part)) : SubSeq(s, i + 1, i + Len(part)) = part

\* String.prototype.split('_'): the pieces between underscores, empty pieces kept
RECURSIVE SplitFrom(_, _, _)
SplitFrom(s, i, piece) ==
    IF i > Len(s) THEN <<piece>>
    ELSE IF s[i] = "_" THEN <<piece>> \o SplitFrom(s, i + 1, <<>>)
    ELSE SplitFrom(s, i + 1, Append(piece, s[i]))

SplitUnderscore(s) == SplitFrom(s, 1, <<>>)

\* nameParts[k] with JavaScript's zero-based index; <<>> stands for undefined
\* (an empty piece is falsy and equal to no non-empty identifier, as undefined is)
NamePart(name, k) ==
    LET parts == SplitUnderscore(name)
    IN  IF k + 1 <= Len(parts) THEN parts[k + 1] ELSE <<>>

-----------------------------------------------------------------------------
(* Proxy records                                                            *)

\* Falsy / absent value of an optional string field such as ext_ip
Absent == ""

\* A ProxyRecord as returned by the account API, restricted to the fields the
\* rotation code reads.  name and id are character sequences; isOnline is
\* "true", "false" or "absent"; rotated_at is the time of the last rotation in
\* milliseconds since the epoch, or -1 when the field is absent.
MkProxy(id, name, extIp, isOnline, status, rotatedAt, byToken, token, statusTok) ==
    [id |-> id, name |-> name, ext_ip |-> extIp, isOnline |-> isOnline,
     status |-> status, rotated_at |-> rotatedAt,
     restartByToken |-> byToken, restartToken |-> token,
     statusByToken |-> statusTok]

DigitChar(i) ==
    CASE i = 0 -> "0" [] i = 1 -> "1" [] i = 2 -> "2" [] i = 3 -> "3"
      [] i = 4 -> "4" [] i = 5 -> "5" [] i = 6 -> "6" [] i = 7 -> "7"
      [] i = 8 -> "8" [] OTHER -> "9"

\* The _id of the i-th record of a listing: ids are the account's database
\* keys, distinct within one listing.
ProxyId(i) == <<"p", DigitChar(i)>>

-----------------------------------------------------------------------------
(* findProxyByIdentifier                                                    *)

\* 1. exact proxy name match, case-insensitive
ExactNameMatch(proxies, lowerIdentifier) ==
    LET Test(p) == ToLowerCase(p.name) = lowerIdentifier
    IN  SelectSeq(proxies, Test)

\* IdMatch reading a field the records do not have (p.id for p._id): the
\* comparison is with undefined and never succeeds
IdMatchWrongField(proxies, identifier) ==
    LET Test(p) == <<>> = identifier
    IN  SelectSeq(proxies, Test)

\* 2. exact proxy id match (case-sensitive, on the identifier as given)
IdMatch(proxies, identifier) ==
    LET Test(p) == p.id = identifier
    IN  SelectSeq(proxies, Test)

\* 3. dongle id: the third underscore-delimited token, equal to or starting
\*    with the identifier
DongleMatch(proxies, lowerIdentifier) ==
    LET Test(p) ==
            LET dongleId == NamePart(p.name, 2)
            IN  /\ dongleId # <<>>
                /\ \/ ToLowerCase(dongleId) = lowerIdentifier
                   \/ StartsWith(ToLowerCase(dongleId), lowerIdentifier)
    IN  SelectSeq(proxies, Test)

\* CountryProxies comparing by containment instead of equality: the country
\* token matches when it shares its first letter with the identifier
CountryProxiesFirstLetter(proxies, lowerIdentifier) ==
    LET Test(p) ==
            LET country == ToLowerCase(NamePart(p.name, 1))
            IN  /\ country # <<>>
                /\ Includes(lowerIdentifier, <<country[1]>>)
    IN  SelectSeq(proxies, Test)

\* 4. country code: the second underscore-delimited token, compared whole
CountryProxies(proxies, lowerIdentifier) ==
    LET Test(p) == ToLowerCase(NamePart(p.name, 1)) = lowerIdentifier
    IN  SelectSeq(proxies, Test)

\* 5. substring of the full name
PartialMatch(proxies, lowerIdentifier) ==
    LET Test(p) == Includes(ToLowerCase(p.name), lowerIdentifier)
    IN  SelectSeq(proxies, Test)

\* Resolver with a memory: proxies returned by the previous call are skipped
findProxyByIdentifierOnce(proxies, identifier) ==
    LET Fresh(p) == \A i \in 1..Len(rFound) : rFound[i] # p
        fresh    == SelectSeq(proxies, Fresh)
        lowerIdentifier == ToLowerCase(identifier)
        exactNameMatch  == ExactNameMatch(fresh, lowerIdentifier)
        idMatch         == IdMatch(fresh, identifier)
        dongleMatch     == DongleMatch(fresh, lowerIdentifier)
        countryProxies  == CountryProxies(fresh, lowerIdentifier)
    IN  IF identifier = <<>> THEN <<>>
        ELSE IF Len(exactNameMatch) > 0 THEN exactNameMatch
        ELSE IF Len(idMatch) > 0 THEN idMatch
        ELSE IF Len(dongleMatch) = 1 THEN dongleMatch
        ELSE IF Len(countryProxies) > 0 THEN countryProxies
        ELSE PartialMatch(fresh, lowerIdentifier)

findProxyByIdentifier(proxies, identifier) ==
    IF identifier = <<>> THEN <<>>
    ELSE
      LET lowerIdentifier == ToLowerCase(identifier)
          exactNameMatch  == ExactNameMatch(proxies, lowerIdentifier)
          idMatch         == IdMatch(proxies, identifier)
          dongleMatch     == DongleMatch(proxies, lowerIdentifier)
          countryProxies  == CountryProxies(proxies, lowerIdentifier)
          partialMatch    == PartialMatch(proxies, lowerIdentifier)
      IN  IF Len(exactNameMatch) > 0 THEN exactNameMatch
          ELSE IF Len(idMatch) > 0 THEN idMatch
          ELSE IF Len(dongleMatch) = 1 THEN dongleMatch
          ELSE IF Len(countryProxies) = 1 THEN countryProxies
          ELSE IF Len(countryProxies) > 1 THEN countryProxies
          ELSE partialMatch

-----------------------------------------------------------------------------
(* Resolver inputs                                                          *)

MaxProxies == 3

Name_12_DE_abc == <<"1", "2", "_", "D", "E", "_", "a", "b", "c">>
Name_34_US_def == <<"3", "4", "_", "U", "S", "_", "d", "e", "f">>
Name_1_US_x    == <<"1", "_", "U", "S", "_", "x">>
Name_2_UA_y    == <<"2", "_", "U", "A", "_", "y">>
Name_1_us_X    == <<"1", "_", "u", "s", "_", "X">>
Name_5_ua      == <<"5", "_", "u", "a">>
Name_P2        == <<"P", "2">>

NamePool ==
    {Name_12_DE_abc, Name_34_US_def, Name_1_US_x, Name_2_UA_y, Name_1_us_X,
     Name_5_ua, Name_P2}

IdentifierPool ==
    {<<>>, <<"d", "e">>, <<"D", "E">>, <<"U", "S">>, <<"u", "a">>, <<"9", "9">>,
     <<"U">>, <<"a", "b">>, <<"p", "1">>, <<"p", "2">>, <<"2">>,
     Name_1_US_x, Name_12_DE_abc}

\* A listing whose records carry the given names, in that order
ListingOf(names) ==
    [i \in 1..Len(names) |->
        MkProxy(ProxyId(i), names[i], "ip1", "true", "active", -1, TRUE, TRUE, TRUE)]

Listings ==
    UNION {{ListingOf(names) : names \in [1..n -> NamePool]} : n \in 0..MaxProxies}

\* No rotation is under way
NoRotation ==
    /\ targets = <<>> /\ apiAvail = FALSE /\ wf = <<>>
    /\ ctl = [pc |-> "off", i |-> 0, results |-> <<>>]
    /\ obs = <<>>

\* No retryWithBackoff call is being made
NoRetry ==
    retry = [pc |-> "off", retries |-> 0, i |-> 0, lastError |-> Absent,
             outcome |-> Absent, calls |-> 0, errors |-> <<>>, delays |-> <<>>]

\* An empty history file, as ensureHistoryFile creates it
EmptyHistory ==
    /\ histFile = <<>> /\ histAppended = <<>>
    /\ histRead = [op |-> "none", value |-> <<>>]
    /\ savers = <<>>

\* The arguments of coronium_rotate_modem after schema parsing: absent
\* optional strings are <<>>, all is FALSE when unset, wait_for_completion and
\* auto_select have the schema default true; wellTyped = FALSE stands for
\* arguments that safeParse rejects
MkArgs(identifier, all, filter, wait, autoSelect) ==
    [wellTyped |-> TRUE, proxy_identifier |-> identifier, all |-> all,
     filter |-> filter, wait_for_completion |-> wait, auto_select |-> autoSelect]

NoResponse ==
    [kind |-> "none", listed |-> {}, results |-> <<>>, verified |-> <<>>]

\* No coronium_rotate_modem call has been made
NoHandler ==
    /\ tokenStore = Absent /\ hPc = "idle"
    /\ parsed = MkArgs(<<>>, FALSE, <<>>, TRUE, TRUE)
    /\ fetched = <<>>
    /\ response = NoResponse

InitResolve ==
    /\ NoRetry
    /\ rProxies \in Listings
    /\ rIdentifier \in IdentifierPool
    /\ rFound = <<>>
    /\ rPc = "call"
    /\ NoRotation
    /\ EmptyHistory
    /\ NoHandler

\* One call findProxyByIdentifier(rProxies, rIdentifier)
Resolve ==
    /\ rPc = "call"
    /\ rFound' = findProxyByIdentifier(rProxies, rIdentifier)
    /\ rPc' = "returned"
    /\ UNCHANGED <<rProxies, rIdentifier, bvars, wvars, hvars, avars>>

\* A second call findProxyByIdentifier(rProxies, rIdentifier) on the same
\* list and identifier
ResolveAgain ==
    /\ rPc = "returned"
    /\ rFound' = findProxyByIdentifier(rProxies, rIdentifier)
    /\ rPc' = "again"
    /\ UNCHANGED <<rProxies, rIdentifier, bvars, wvars, hvars, avars>>

NextResolve == Resolve \/ ResolveAgain

SpecResolve == InitResolve /\ [][NextResolve]_vars

-----------------------------------------------------------------------------
(* Properties of the resolver                                               *)

\* The indices of rProxies whose country token equals the identifier, ignoring case
CountryTokenIdx ==
    {i \in 1..Len(rProxies) :
        ToLowerCase(NamePart(rProxies[i].name, 1)) = ToLowerCase(rIdentifier)}

\* No record's name (ignoring case) or id is the identifier
NoNameOrIdIsIdentifier ==
    \A i \in 1..Len(rProxies) :
        /\ ToLowerCase(rProxies[i].name) # ToLowerCase(rIdentifier)
        /\ rProxies[i].id # rIdentifier

\* No record's third name token starts with the identifier
NoDonglePrefix ==
    \A i \in 1..Len(rProxies) :
        ~StartsWith(ToLowerCase(NamePart(rProxies[i].name, 2)), ToLowerCase(rIdentifier))

\* C4: an identifier that equals, ignoring case, the country-code token of
\* exactly one proxy and equals no proxy's name or id resolves to exactly that
\* proxy; so [12_DE_abc (p1), 34_US_def (p2)] with "de" resolves to [p1].
C4_CountryCodeOfOneProxyResolvesToIt ==
    (rPc = "returned" /\ rIdentifier # <<>>) =>
        \A i \in CountryTokenIdx :
            (CountryTokenIdx = {i} /\ NoNameOrIdIsIdentifier) => rFound = <<rProxies[i]>>

\* C5: the country rule selects by equality, ignoring case, of the identifier
\* with the second underscore-delimited token: when it decides the result,
\* the result is exactly the records with that token; and for a listing of
\* proxies named 1_US_x and 2_UA_y, "US" yields the US proxies and no UA one.
C5_CountryMatchIsExactToken ==
    (rPc = "returned" /\ rIdentifier # <<>>) =>
        /\ (NoNameOrIdIsIdentifier /\ NoDonglePrefix /\ CountryTokenIdx # {}) =>
               rFound = [k \in 1..Cardinality(CountryTokenIdx) |->
                            rProxies[CHOOSE i \in CountryTokenIdx :
                                Cardinality({j \in CountryTokenIdx : j < i}) = k - 1]]
        /\ ( /\ {rProxies[i].name : i \in 1..Len(rProxies)} = {Name_1_US_x, Name_2_UA_y}
             /\ rIdentifier = <<"U", "S">> ) =>
               /\ Len(rFound) > 0
               /\ \A k \in 1..Len(rFound) : rFound[k].name = Name_1_US_x

C5_Witness ==
    /\ rPc = "returned"
    /\ rIdentifier = <<"U", "S">>
    /\ Len(rProxies) = 2
    /\ rProxies[1].name = Name_1_US_x
    /\ rProxies[2].name = Name_2_UA_y
    /\ rFound = <<rProxies[1]>>

\* C6 as stated: an identifier equal to one proxy's exact id or exact name
\* yields exactly that proxy, whatever the other records are.
C6_ExactIdOrNameYieldsThatProxy ==
    rPc = "returned" =>
        \A i \in 1..Len(rProxies) :
            (rIdentifier = rProxies[i].id \/ rIdentifier = rProxies[i].name) =>
                rFound = <<rProxies[i]>>

\* C6 amended: an identifier equal to one proxy's exact id or exact name
\* yields exactly that proxy provided no other record's name equals the
\* identifier ignoring case.
C6_ExactIdOrNameYieldsThatProxyUnlessNameClash ==
    rPc = "returned" =>
        \A i \in 1..Len(rProxies) :
            ( /\ rIdentifier = rProxies[i].id \/ rIdentifier = rProxies[i].name
              /\ \A j \in 1..Len(rProxies) :
                    j # i => ToLowerCase(rProxies[j].name) # ToLowerCase(rIdentifier) ) =>
                rFound = <<rProxies[i]>>

\* An id given as identifier, next to two other records, resolved to its proxy
C6_Witness ==
    /\ rPc = "returned"
    /\ Len(rProxies) = 3
    /\ rIdentifier = rProxies[2].id
    /\ rProxies[2].name # Name_P2
    /\ rFound = <<rProxies[2]>>

-----------------------------------------------------------------------------
(* RotationManager.rotateProxy                                              *)

maxVerificationAttempts == 5
SettleWaitMs   == 10000
SameIpWaitMs   == 4000
UnknownWaitMs  == 3000
FallbackWaitMs == 5000

\* The result slot of a workflow that has not returned yet
NoResult ==
    [success |-> FALSE, proxyId |-> <<>>, proxyName |-> <<>>, oldIp |-> Absent,
     newIp |-> Absent, error |-> Absent]

\* A rotateProxy call that has not been made yet: its position, its locals
\* oldIp, newIp and verificationAttempts, the duration of the timer it is
\* waiting on, and the result it returned.  (rotationTime and timestamp of the
\* result are wall-clock readings and are left out.)
IdleWorkflow ==
    [pc |-> "idle", oldIp |-> Absent, newIp |-> Absent, attempts |-> 0,
     wait |-> 0, result |-> NoResult]

\* The locals of a call that has returned are gone
Return(w, result) ==
    [IdleWorkflow EXCEPT !.pc = "done", !.result = result]

\* A catch block that rethrows: the promise of the call is rejected
FailedRethrown(w, proxy, message) ==
    [IdleWorkflow EXCEPT !.pc = "rejected"]

\* The catch block: success=false, the error message, no newIp field
Failed(w, proxy, message) ==
    Return(w, [success |-> FALSE, proxyId |-> proxy.id,
               proxyName |-> proxy.name, oldIp |-> w.oldIp,
               newIp |-> Absent, error |-> message])

\* The return at the end of the try block
Finalize(w, proxy) ==
    LET rotationSuccess ==
            w.newIp # "pending" /\ w.newIp # "unknown" /\ w.newIp # w.oldIp
    IN  Return(w, [success |-> rotationSuccess, proxyId |-> proxy.id,
                   proxyName |-> proxy.name, oldIp |-> w.oldIp,
                   newIp |-> IF w.newIp = "pending"
                             THEN "verification timeout" ELSE w.newIp,
                   error |-> Absent])

\* The fallback entered whenever an API client and token were passed,
\* whatever the polling loop found
AfterPollingAlways(w, proxy, api) ==
    IF api
    THEN [w EXCEPT !.pc = "fbWait1", !.wait = FallbackWaitMs]
    ELSE Finalize(w, proxy)

\* After the polling loop: the fallback is entered when no new IP was found
\* and an API client and token were passed; its first step is a wait
AfterPolling(w, proxy, api) ==
    IF (w.newIp = "pending" \/ w.newIp = w.oldIp) /\ api
    THEN [w EXCEPT !.pc = "fbWait1", !.wait = FallbackWaitMs]
    ELSE Finalize(w, proxy)

\* The start of rotateProxy without the token check: the GET goes out to a
\* URL built from whatever the proxy has
StartRotateUnchecked(proxy) ==
    [IdleWorkflow EXCEPT
        !.oldIp = IF proxy.ext_ip # Absent THEN proxy.ext_ip ELSE "unknown",
        !.pc = "trigger"]

\* The synchronous start of rotateProxy, up to its first await: the token
\* check, then the GET of the rotation URL
StartRotate(proxy) ==
    LET w == [IdleWorkflow EXCEPT
                !.oldIp = IF proxy.ext_ip # Absent THEN proxy.ext_ip ELSE "unknown"]
    IN  IF ~proxy.restartByToken /\ ~proxy.restartToken
        THEN Failed(w, proxy, "No rotation token available for this proxy")
        ELSE [w EXCEPT !.pc = "trigger"]

\* What the rotation URL can answer: 2xx, 2xx with the provider's error body
\* {"error": "This token has expired! ..."}, a non-2xx status with that error
\* body (axios rejects), or no answer (network error or 30 s timeout)
TriggerOutcomes == {"ok", "okErrorBody", "httpError", "netError"}

AxiosMessage(outcome) ==
    IF outcome = "httpError" THEN "Request failed with status code 400"
    ELSE "timeout of 30000ms exceeded"

\* The rotation GET inside its own try/catch that only logs: a rejected
\* request is followed by the settle wait like an accepted one
OnTriggerErrorSwallowed(w, proxy, outcome) ==
    [w EXCEPT !.pc = "settle", !.newIp = "pending", !.wait = SettleWaitMs]

\* The rotation GET followed by the polling loop at once, without the
\* 10 s wait
OnTriggerNoSettle(w, proxy, outcome) ==
    IF outcome \in {"httpError", "netError"}
    THEN Failed(w, proxy, AxiosMessage(outcome))
    ELSE [w EXCEPT !.pc = "poll", !.newIp = "pending", !.attempts = 1]

\* A rejected rotation GET sending the call back to its start, where the
\* GET is issued again
OnTriggerRestart(w, proxy, outcome) ==
    IF outcome \in {"httpError", "netError"}
    THEN [w EXCEPT !.pc = "idle"]
    ELSE [w EXCEPT !.pc = "settle", !.newIp = "pending", !.wait = SettleWaitMs]

\* The answer to the rotation GET arrives
OnTrigger(w, proxy, outcome) ==
    IF outcome \in {"httpError", "netError"}
    THEN Failed(w, proxy, AxiosMessage(outcome))
    ELSE [w EXCEPT !.pc = "settle", !.newIp = "pending", !.wait = SettleWaitMs]

\* The loop head without verificationAttempts++
IssueStatusUncounted(w) ==
    [w EXCEPT !.pc = "poll"]

\* One pass of the loop head: count the attempt and GET the status URL
IssueStatus(w) ==
    [w EXCEPT !.pc = "poll", !.attempts = @ + 1]

\* The 10 s wait is over: enter the polling loop if a status URL exists
OnSettled(w, proxy, api) ==
    LET w1 == [w EXCEPT !.wait = 0]
    IN  IF proxy.statusByToken \/ proxy.restartToken
        THEN IssueStatus(w1)
        ELSE AfterPolling(w1, proxy, api)

\* The IP fields of a status body, each Absent or a string
IpFields(extIp, externalIp, currentIp, ip) ==
    [ext_ip |-> extIp, external_ip |-> externalIp, current_ip |-> currentIp, ip |-> ip]

NoIpFields == IpFields(Absent, Absent, Absent, Absent)

\* checkStatus: data = response.data.data || response.data, then the first
\* non-empty of ext_ip, external_ip, current_ip, ip, else 'unknown'; 'unknown'
\* too when the request fails.  resp.hasData says response.data.data is set,
\* resp.inner holds its fields and resp.top those of response.data.
checkStatus(resp) ==
    IF resp.failed THEN "unknown"
    ELSE
      LET data == IF resp.hasData THEN resp.inner ELSE resp.top
      IN  IF data.ext_ip # Absent THEN data.ext_ip
          ELSE IF data.external_ip # Absent THEN data.external_ip
          ELSE IF data.current_ip # Absent THEN data.current_ip
          ELSE IF data.ip # Absent THEN data.ip
          ELSE "unknown"

\* The loop body without the break: a changed IP is stored and the loop
\* goes on to its next pass
OnStatusNoBreak(w, proxy, api, currentIp) ==
    IF w.attempts < maxVerificationAttempts
    THEN [w EXCEPT !.pc = "pollWait", !.wait = UnknownWaitMs,
                   !.newIp = IF currentIp \notin {Absent, "unknown", w.oldIp}
                             THEN currentIp ELSE @]
    ELSE AfterPolling(w, proxy, api)

\* The loop body after checkStatus returned currentIp
OnStatus(w, proxy, api, currentIp) ==
    IF currentIp # Absent /\ currentIp # "unknown"
    THEN IF currentIp # w.oldIp
         THEN AfterPolling([w EXCEPT !.newIp = currentIp], proxy, api)
         ELSE IF w.attempts < maxVerificationAttempts
              THEN [w EXCEPT !.pc = "pollWait", !.wait = SameIpWaitMs]
              ELSE AfterPolling(w, proxy, api)
    ELSE IF w.attempts < maxVerificationAttempts
         THEN [w EXCEPT !.pc = "pollWait", !.wait = UnknownWaitMs]
         ELSE AfterPolling(w, proxy, api)

\* The wait between two polls is over: the loop condition holds (attempts < 5
\* and newIp pending), so the next status request is sent
OnPollWaited(w) ==
    IssueStatus([w EXCEPT !.wait = 0])

\* A fallback wait is over: GET the account's proxy list
OnFallbackWaited(w) ==
    [w EXCEPT !.wait = 0,
              !.pc = IF w.pc = "fbWait1" THEN "fbFetch1" ELSE "fbFetch2"]

\* Array.prototype.find(p => p._id === id): the first record with that id,
\* found = FALSE for undefined
FindById(listing, id) ==
    LET hits == {i \in 1..Len(listing) : listing[i].id = id}
    IN  IF hits = {} THEN [found |-> FALSE, ext_ip |-> Absent]
        ELSE [found |-> TRUE,
              ext_ip |-> listing[CHOOSE i \in hits : \A j \in hits : i <= j].ext_ip]

\* The first fallback fetch returned (threw = TRUE: getProxies rejected)
OnFetch1(w, proxy, threw, listing) ==
    IF threw THEN Finalize(w, proxy)
    ELSE
      LET updatedProxy == FindById(listing, proxy.id)
      IN  IF updatedProxy.found /\ updatedProxy.ext_ip # Absent
          THEN IF updatedProxy.ext_ip # w.oldIp
               THEN Finalize([w EXCEPT !.newIp = updatedProxy.ext_ip], proxy)
               ELSE [w EXCEPT !.pc = "fbWait2", !.wait = FallbackWaitMs]
          ELSE Finalize(w, proxy)

\* OnFetch2 without the comparison with oldIp: whatever the listing shows
\* for the target is taken as the new IP
OnFetch2Unchecked(w, proxy, threw, listing) ==
    IF threw THEN Finalize(w, proxy)
    ELSE
      LET finalProxy == FindById(listing, proxy.id)
      IN  IF finalProxy.found
          THEN Finalize([w EXCEPT !.newIp = finalProxy.ext_ip], proxy)
          ELSE Finalize(w, proxy)

\* The second fallback fetch returned
OnFetch2(w, proxy, threw, listing) ==
    IF threw THEN Finalize(w, proxy)
    ELSE
      LET finalProxy == FindById(listing, proxy.id)
      IN  IF finalProxy.found /\ finalProxy.ext_ip # w.oldIp
          THEN Finalize([w EXCEPT !.newIp = finalProxy.ext_ip], proxy)
          ELSE Finalize(w, proxy)

-----------------------------------------------------------------------------
(* The environment of a workflow                                            *)

IpValues == {"ip1", "ip2", "unknown"}

StatusBodies ==
    {NoIpFields}
    \cup {IpFields(x, Absent, Absent, Absent) : x \in IpValues}
    \cup {IpFields(Absent, x, Absent, Absent) : x \in IpValues}
    \cup {IpFields(Absent, Absent, x, Absent) : x \in IpValues}
    \cup {IpFields(Absent, Absent, Absent, x) : x \in IpValues}
    \cup {IpFields("ip1", Absent, Absent, "ip2"), IpFields(Absent, "ip2", "ip1", Absent)}

\* What the status URL can answer
StatusResponses ==
    {[failed |-> TRUE, hasData |-> FALSE, inner |-> NoIpFields, top |-> NoIpFields]}
    \cup {[failed |-> FALSE, hasData |-> FALSE, inner |-> NoIpFields, top |-> b] :
            b \in StatusBodies}
    \cup {[failed |-> FALSE, hasData |-> TRUE, inner |-> b, top |-> NoIpFields] :
            b \in StatusBodies}

\* The currentIp values checkStatus can return for these responses
StatusAnswers == {checkStatus(resp) : resp \in StatusResponses}

\* A record of another proxy of the account, listed before the target
Decoy ==
    MkProxy(<<"p", "9">>, Name_5_ua, "ip2", "true", "active", -1, TRUE, TRUE, TRUE)

\* What getProxies can return while a rotation is verified: the account
\* without the target, or with the target showing some ext_ip (or none)
FetchedListings(proxy) ==
    {<<>>, <<Decoy>>}
    \cup {<<[proxy EXCEPT !.ext_ip = x]>> : x \in IpValues \cup {Absent}}
    \cup {<<Decoy, [proxy EXCEPT !.ext_ip = x]>> : x \in IpValues \cup {Absent}}

-----------------------------------------------------------------------------
(* The steps of one rotateProxy call, for the target at index k             *)

MaxTargets == 4

\* The indices a target can have; a step of workflow k needs k <= Len(targets)
Workflows == 1..MaxTargets

\* What an observer records of a workflow: the requests it sent (trigger,
\* status, account listing), the answer to its trigger request, the time it
\* spent in timed waits, and the steps it took
IdleObservation ==
    [nTrigger |-> 0, nStatus |-> 0, nFetch |-> 0, trigger |-> "none",
     waitedMs |-> 0, steps |-> <<>>]

\* The observation of workflow k after its step from w to w2, in which it
\* got the trigger answer `answer` ("none" in the other steps)
Observe(k, w, w2, answer) ==
    IF k \notin DOMAIN obs THEN obs
    ELSE [obs EXCEPT ![k] =
            [nTrigger |-> @.nTrigger + (IF w2.pc = "trigger" THEN 1 ELSE 0),
             nStatus  |-> @.nStatus + (IF w2.pc = "poll" THEN 1 ELSE 0),
             nFetch   |-> @.nFetch + (IF w2.pc \in {"fbFetch1", "fbFetch2"} THEN 1 ELSE 0),
             trigger  |-> IF answer # "none" THEN answer ELSE @.trigger,
             waitedMs |-> @.waitedMs + w.wait,
             steps    |-> IF w.pc # "idle" /\ (@.steps = <<>> \/ @.steps[Len(@.steps)] # w.pc)
                          THEN Append(@.steps, w.pc) ELSE @.steps]]

\* Workflow k goes from wf[k] to w2
Step(k, w2, answer) ==
    /\ wf' = [wf EXCEPT ![k] = w2]
    /\ obs' = Observe(k, wf[k], w2, answer)
    /\ UNCHANGED <<targets, apiAvail, ctl, rvars, bvars, hvars, avars>>

\* rotateProxy(targets[k], ...) is called on its own (a single target)
RotateCall(k) ==
    /\ k \in DOMAIN wf
    /\ ctl.pc = "single"
    /\ wf[k].pc = "idle"
    /\ Step(k, StartRotate(targets[k]), "none")

TriggerResponse(k) ==
    /\ k \in DOMAIN wf
    /\ wf[k].pc = "trigger"
    /\ \E outcome \in TriggerOutcomes :
          Step(k, OnTrigger(wf[k], targets[k], outcome), outcome)

SettleElapsed(k) ==
    /\ k \in DOMAIN wf
    /\ wf[k].pc = "settle"
    /\ Step(k, OnSettled(wf[k], targets[k], apiAvail), "none")

StatusResponse(k) ==
    /\ k \in DOMAIN wf
    /\ wf[k].pc = "poll"
    /\ \E currentIp \in StatusAnswers :
          Step(k, OnStatus(wf[k], targets[k], apiAvail, currentIp), "none")

PollWaitElapsed(k) ==
    /\ k \in DOMAIN wf
    /\ wf[k].pc = "pollWait"
    /\ Step(k, OnPollWaited(wf[k]), "none")

FallbackWaitElapsed(k) ==
    /\ k \in DOMAIN wf
    /\ wf[k].pc \in {"fbWait1", "fbWait2"}
    /\ Step(k, OnFallbackWaited(wf[k]), "none")

Fetch1Response(k) ==
    /\ k \in DOMAIN wf
    /\ wf[k].pc = "fbFetch1"
    /\ \/ Step(k, OnFetch1(wf[k], targets[k], TRUE, <<>>), "none")
       \/ \E listing \in FetchedListings(targets[k]) :
             Step(k, OnFetch1(wf[k], targets[k], FALSE, listing), "none")

Fetch2Response(k) ==
    /\ k \in DOMAIN wf
    /\ wf[k].pc = "fbFetch2"
    /\ \/ Step(k, OnFetch2(wf[k], targets[k], TRUE, <<>>), "none")
       \/ \E listing \in FetchedListings(targets[k]) :
             Step(k, OnFetch2(wf[k], targets[k], FALSE, listing), "none")

WorkflowStep(k) ==
    \/ TriggerResponse(k)
    \/ SettleElapsed(k)
    \/ StatusResponse(k)
    \/ PollWaitElapsed(k)
    \/ FallbackWaitElapsed(k)
    \/ Fetch1Response(k)
    \/ Fetch2Response(k)

-----------------------------------------------------------------------------
(* One rotateProxy call on one proxy                                        *)

\* The proxies a rotation can be asked for: with or without a current IP,
\* and with any combination of restartByToken, restartToken, statusByToken
RotationTargets ==
    {MkProxy(ProxyId(1), Name_1_US_x, ip, "true", "active", -1, byToken, token, statusTok) :
        ip \in {Absent, "ip1"}, byToken \in BOOLEAN, token \in BOOLEAN,
        statusTok \in BOOLEAN}

IdleControl == [pc |-> "single", i |-> 0, results |-> <<>>]

\* The resolver is not being exercised
NoResolve ==
    rProxies = <<>> /\ rIdentifier = <<>> /\ rFound = <<>> /\ rPc = "off"

InitRotate ==
    /\ NoRetry
    /\ NoResolve
    /\ EmptyHistory
    /\ NoHandler
    /\ \E proxy \in RotationTargets : targets = <<proxy>>
    /\ apiAvail \in BOOLEAN
    /\ wf = [k \in 1..1 |-> IdleWorkflow]
    /\ ctl = IdleControl
    /\ obs = [k \in 1..1 |-> IdleObservation]

NextRotate ==
    \/ \E k \in Workflows : RotateCall(k)
    \/ \E k \in Workflows : WorkflowStep(k)

SpecRotate == InitRotate /\ [][NextRotate]_vars

-----------------------------------------------------------------------------
(* rotateMultipleProxies                                                    *)

concurrencyLimit == 3

\* Off-by-one slice: proxies.slice(i, i + concurrencyLimit + 1)
BatchIndicesOneMore(i) ==
    {k \in 1..Len(targets) : i < k /\ k <= i + concurrencyLimit + 1}

\* The indices of proxies.slice(i, i + concurrencyLimit), i counted from 0
BatchIndices(i) ==
    {k \in 1..Len(targets) : i < k /\ k <= i + concurrencyLimit}

\* Promise.race in place of Promise.all: the await ends with the first
\* workflow of the batch that returns
BatchAnySettled ==
    \E k \in BatchIndices(ctl.i) : wf[k].pc = "done"

\* await Promise.all(...): every rotateProxy call of the batch has returned
\* (rotateProxy never rejects: its catch block returns a result)
BatchSettled ==
    \A k \in BatchIndices(ctl.i) : wf[k].pc = "done"

\* The sequence of the elements of a set of indices, in increasing order
RECURSIVE Ascending(_)
Ascending(S) ==
    IF S = {} THEN <<>>
    ELSE LET m == CHOOSE x \in S : \A y \in S : x <= y
         IN  <<m>> \o Ascending(S \ {m})

\* Only the successful results are kept
BatchResultsSuccessOnly(i) ==
    LET all == [n \in 1..Cardinality(BatchIndices(i)) |->
                   wf[Ascending(BatchIndices(i))[n]].result]
        Ok(r) == r.success
    IN  SelectSeq(all, Ok)

\* batchResults: the results of the batch, in the order of the slice
BatchResults(i) ==
    [n \in 1..Cardinality(BatchIndices(i)) |->
        wf[Ascending(BatchIndices(i))[n]].result]

\* batch.map(proxy => rotateProxy(proxy, ...)): every call of the slice runs
\* synchronously up to its first await
StartBatch(w, i) ==
    [k \in DOMAIN w |-> IF k \in BatchIndices(i) THEN StartRotate(targets[k]) ELSE w[k]]

\* The for loop from index i with the results collected so far: start the
\* next batch and await it, or return the results
LoopFrom(i, results) ==
    IF i < Len(targets)
    THEN /\ wf' = StartBatch(wf, i)
         /\ ctl' = [pc |-> "awaiting", i |-> i, results |-> results]
    ELSE /\ wf' = wf
         /\ ctl' = [pc |-> "returned", i |-> i, results |-> results]

\* rotateMultipleProxies(targets, ...) is called
BatchCall ==
    /\ ctl.pc = "batch"
    /\ LoopFrom(0, <<>>)
    /\ UNCHANGED <<targets, apiAvail, obs, rvars, bvars, hvars, avars>>

\* The awaited Promise.all resolves: push the batch's results, advance i by
\* concurrencyLimit and go round the loop
BatchResume ==
    /\ ctl.pc = "awaiting"
    /\ BatchSettled
    /\ LoopFrom(ctl.i + concurrencyLimit, ctl.results \o BatchResults(ctl.i))
    /\ UNCHANGED <<targets, apiAvail, obs, rvars, bvars, hvars, avars>>

\* The targets of a batch: a proxy without rotation token, one with a
\* rotation URL only, one with a restart token (so with a status URL)
BatchTarget(k, kind) ==
    MkProxy(ProxyId(k), Name_1_US_x, "ip1", "true", "active", -1,
            kind = "urlOnly", kind = "token", FALSE)

\* Every target is without token or with a rotation URL only; the first two
\* may instead have a restart token, so that polling workflows run next to
\* each other and to the others
BatchKinds(k) ==
    IF k <= 2 THEN {"noToken", "urlOnly", "token"} ELSE {"noToken", "urlOnly"}

BatchLists ==
    UNION {{[k \in 1..n |-> BatchTarget(k, kinds[k])] :
                kinds \in {f \in [1..n -> {"noToken", "urlOnly", "token"}] :
                              \A k \in 1..n : f[k] \in BatchKinds(k)}} :
              n \in 0..MaxTargets}

InitBatch ==
    /\ NoRetry
    /\ NoResolve
    /\ EmptyHistory
    /\ NoHandler
    /\ targets \in BatchLists
    /\ apiAvail = TRUE
    /\ wf = [k \in 1..Len(targets) |-> IdleWorkflow]
    /\ ctl = [pc |-> "batch", i |-> 0, results |-> <<>>]
    /\ obs = <<>>

NextBatch ==
    \/ BatchCall
    \/ BatchResume
    \/ \E k \in Workflows : WorkflowStep(k)

SpecBatch == InitBatch /\ [][NextBatch]_vars

\* Every request is answered or times out (axios timeout 30000) and every
\* timer fires, so a workflow that can take a step takes it in the end; the
\* event loop runs the continuation of a resolved promise
BatchFairness ==
    /\ \A k \in Workflows : WF_vars(WorkflowStep(k))
    /\ WF_vars(BatchCall)
    /\ WF_vars(BatchResume)

SpecBatchLive == SpecBatch /\ BatchFairness

-----------------------------------------------------------------------------
(* RotationManager.retryWithBackoff                                         *)

retryDelay == 5000

\* What one invocation of fn can do: fulfil with a value or reject with an error
FnValues == {"v1", "v2"}
FnErrors == {"e1", "e2"}

\* The loop head for index i: invoke fn when i < retries, otherwise leave
\* the loop and throw lastError
RetryLoop(r, i) ==
    IF i < r.retries
    THEN [r EXCEPT !.pc = "call", !.i = i, !.calls = @ + 1]
    ELSE [r EXCEPT !.pc = "thrown", !.i = i, !.outcome = r.lastError]

\* retryWithBackoff(fn, retries) up to its first await
StartRetry(retries) ==
    RetryLoop([pc |-> "off", retries |-> retries, i |-> 0, lastError |-> Absent,
               outcome |-> Absent, calls |-> 0, errors |-> <<>>, delays |-> <<>>],
              0)

\* The catch block with a delay that grows by retryDelay per attempt and a
\* wait after the last attempt as well
OnFnRejectedLinear(r, error) ==
    [r EXCEPT !.pc = "wait", !.lastError = error,
              !.errors = Append(@, error),
              !.delays = Append(@, retryDelay * (r.i + 1))]

\* fn fulfilled with value: return it
OnFnFulfilled(r, value) ==
    [r EXCEPT !.pc = "returned", !.outcome = value]

\* fn rejected with error: remember it; wait retryDelay * 2^i unless this
\* was the last attempt
OnFnRejected(r, error) ==
    LET r1 == [r EXCEPT !.lastError = error, !.errors = Append(@, error)]
    IN  IF r.i < r.retries - 1
        THEN [r1 EXCEPT !.pc = "wait", !.delays = Append(@, retryDelay * (2 ^ r.i))]
        ELSE RetryLoop(r1, r.i + 1)

\* The wait is over: i++ and the loop head
OnRetryWaited(r) ==
    RetryLoop(r, r.i + 1)

MaxRetryArg == 4

\* retryWithBackoff(fn, retries) is called; retries is maxRetries by default
RetryCall ==
    /\ retry.pc = "off"
    /\ \E retries \in 0..MaxRetryArg : retry' = StartRetry(retries)
    /\ UNCHANGED <<rvars, wvars, hvars, avars>>

FnFulfilled ==
    /\ retry.pc = "call"
    /\ \E value \in FnValues : retry' = OnFnFulfilled(retry, value)
    /\ UNCHANGED <<rvars, wvars, hvars, avars>>

FnRejected ==
    /\ retry.pc = "call"
    /\ \E error \in FnErrors : retry' = OnFnRejected(retry, error)
    /\ UNCHANGED <<rvars, wvars, hvars, avars>>

RetryWaitElapsed ==
    /\ retry.pc = "wait"
    /\ retry' = OnRetryWaited(retry)
    /\ UNCHANGED <<rvars, wvars, hvars, avars>>

InitRetry ==
    /\ NoRetry
    /\ NoResolve
    /\ NoRotation
    /\ EmptyHistory
    /\ NoHandler

NextRetry ==
    \/ RetryCall
    \/ FnFulfilled
    \/ FnRejected
    \/ RetryWaitElapsed

SpecRetry == InitRetry /\ [][NextRetry]_vars

\* C30: with retries >= 1, retryWithBackoff invokes fn at most retries
\* times; it returns the value of the first invocation that succeeds and
\* invokes nothing after it; after the i-th failed attempt (i from 0) it
\* waits retryDelay * 2^i, except after the last one; when every attempt
\* failed it throws the error of the last attempt.
C30_RetryWithBackoffContract ==
    retry.retries >= 1 =>
        /\ retry.calls <= retry.retries
        /\ retry.delays = [j \in 1..Len(retry.delays) |-> retryDelay * (2 ^ (j - 1))]
        /\ Len(retry.delays) <= retry.retries - 1
        /\ retry.pc = "call" =>
             retry.calls = Len(retry.errors) + 1 /\ Len(retry.delays) = Len(retry.errors)
        /\ retry.pc = "wait" =>
             retry.calls = Len(retry.errors) /\ Len(retry.delays) = Len(retry.errors)
        /\ retry.pc = "returned" =>
             /\ retry.outcome \in FnValues
             /\ retry.calls = Len(retry.errors) + 1
             /\ Len(retry.delays) = Len(retry.errors)
        /\ retry.pc = "thrown" =>
             /\ retry.calls = retry.retries
             /\ Len(retry.errors) = retry.retries
             /\ Len(retry.delays) = retry.retries - 1
             /\ retry.outcome = retry.errors[retry.retries]

\* Three attempts: two failures, waits of 5 s and 10 s, then a value
C30_Witness ==
    /\ retry.pc = "returned"
    /\ retry.retries = 3
    /\ retry.errors = <<"e1", "e2">>
    /\ retry.delays = <<5000, 10000>>
    /\ retry.outcome = "v1"

-----------------------------------------------------------------------------
(* RotationHistory                                                          *)

maxEntries == 100

\* Array.prototype.slice(-n): the last n elements, all of them if fewer
SliceLast(seq, n) ==
    IF Len(seq) <= n THEN seq ELSE SubSeq(seq, Len(seq) - n + 1, Len(seq))

\* getHistory(proxyId?): the parsed file, filtered by proxyId when one is
\* given (<<>> stands for no argument); [] when the file cannot be read or
\* parsed.  The entries are plain objects of strings, numbers and booleans,
\* which JSON.stringify and JSON.parse give back unchanged.
getHistory(file, readable, proxyId) ==
    IF ~readable THEN <<>>
    ELSE IF proxyId # <<>>
         THEN LET Test(e) == e.proxyId = proxyId IN SelectSeq(file, Test)
         ELSE file

\* getLastRotation(proxyId): the last entry of that proxy, <<>> for null
getLastRotation(file, readable, proxyId) ==
    LET proxyHistory == getHistory(file, readable, proxyId)
    IN  IF Len(proxyHistory) > 0 THEN <<proxyHistory[Len(proxyHistory)]>> ELSE <<>>

\* Pruning that keeps the first maxEntries entries: slice(0, maxEntries)
addRotationKeepOldest(file, entry, readable, writable) ==
    LET history == Append(getHistory(file, readable, <<>>), entry)
        pruned  == IF Len(history) <= maxEntries THEN history
                   ELSE SubSeq(history, 1, maxEntries)
    IN  IF writable THEN pruned ELSE file

\* unshift in place of push: the new entry goes to the front
addRotationNewestFirst(file, entry, readable, writable) ==
    LET history == <<entry>> \o getHistory(file, readable, <<>>)
        pruned  == SliceLast(history, maxEntries)
    IN  IF writable THEN pruned ELSE file

\* addRotation(entry): the file after the call: read, push, keep the last
\* maxEntries, write; a failed write is logged and leaves the file as it was
addRotation(file, entry, readable, writable) ==
    LET history == Append(getHistory(file, readable, <<>>), entry)
        pruned  == SliceLast(history, maxEntries)
    IN  IF writable THEN pruned ELSE file

MaxAppends == 150

\* The n-th entry handed to addRotation; its id stands for the 16 random
\* bytes, distinct from call to call
HistoryEntry(n) ==
    [id |-> n, proxyId |-> ProxyId(1 + (n % 2)), proxyName |-> Name_1_US_x,
     oldIp |-> "ip1", newIp |-> "ip2", success |-> TRUE]

InitHistory ==
    /\ NoRetry
    /\ NoResolve
    /\ NoRotation
    /\ EmptyHistory
    /\ NoHandler

\* history.addRotation(entry), with the file readable and writable
AddRotation ==
    /\ Len(histAppended) < MaxAppends
    /\ LET entry == HistoryEntry(Len(histAppended) + 1)
       IN  /\ histFile' = addRotation(histFile, entry, TRUE, TRUE)
           /\ histAppended' = Append(histAppended, entry)
    /\ UNCHANGED <<histRead, savers, rvars, bvars, wvars, avars>>

\* history.getHistory() or history.getHistory(proxyId)
GetHistory ==
    /\ \E proxyId \in {<<>>, ProxyId(1), ProxyId(2)} :
          histRead' = [op |-> "getHistory",
                       value |-> getHistory(histFile, TRUE, proxyId)]
    /\ UNCHANGED <<histFile, histAppended, savers, rvars, bvars, wvars, avars>>

\* history.getLastRotation(proxyId)
GetLastRotation ==
    /\ \E proxyId \in {ProxyId(1), ProxyId(2), ProxyId(3)} :
          histRead' = [op |-> "getLastRotation",
                       value |-> getLastRotation(histFile, TRUE, proxyId)]
    /\ UNCHANGED <<histFile, histAppended, savers, rvars, bvars, wvars, avars>>

NextHistory ==
    \/ AddRotation
    \/ GetHistory
    \/ GetLastRotation

SpecHistory == InitHistory /\ [][NextHistory]_vars

\* C3: the stored log never holds more than 100 entries, and it is, in
\* insertion order, exactly the last 100 entries appended (all of them while
\* fewer were appended): getHistory() returns those, and once more than 100
\* were appended the oldest ones are absent.
C3_HistoryIsLastHundredAppended ==
    /\ Len(histFile) <= 100
    /\ LET n == Len(histAppended)
           listed == getHistory(histFile, TRUE, <<>>)
       IN  /\ Len(listed) = IF n <= 100 THEN n ELSE 100
           /\ \A i \in 1..Len(listed) : listed[i] = histAppended[n - Len(listed) + i]
           /\ n > 100 => \A i \in 1..Len(listed) : listed[i].id # histAppended[1].id

\* 101 entries appended: 100 listed, the first one gone
C3_Witness ==
    /\ Len(histAppended) = 101
    /\ Len(histFile) = 100
    /\ histFile[1] = histAppended[2]
    /\ histFile[100] = histAppended[101]

-----------------------------------------------------------------------------
(* The history loops of rotate operations that run at the same time         *)

MaxSavers == 2
MaxSaved == 2

\* The history loop of an operation that has `left` successful results still
\* to save; snapshot and hasRead belong to an addRotation call under way
MkSaver(left) == [left |-> left, snapshot |-> <<>>, hasRead |-> FALSE]

\* addRotation yielding between its read and its write: the first step keeps
\* what it read, the second writes that with the entry added
SaveNextInTwoSteps(file, sv, entry) ==
    IF ~sv.hasRead
    THEN [file |-> file, appended |-> <<>>,
          saver |-> [sv EXCEPT !.snapshot = getHistory(file, TRUE, <<>>),
                               !.hasRead = TRUE]]
    ELSE [file |-> SliceLast(Append(sv.snapshot, entry), maxEntries),
          appended |-> <<entry>>,
          saver |-> MkSaver(sv.left - 1)]

\* One pass of the loop `for (const result of results) await
\* history.addRotation(...)`: addRotation has no await in its body, so its
\* read, push, prune and write run without another callback in between; the
\* loop yields only at the await of the returned promise
SaveNext(file, sv, entry) ==
    [file |-> addRotation(file, entry, TRUE, TRUE), appended |-> <<entry>>,
     saver |-> MkSaver(sv.left - 1)]

\* The entry operation s saves when n entries were handed over before
SaverEntry(s, n) == [HistoryEntry(n + 1) EXCEPT !.proxyId = ProxyId(s)]

\* A log left by earlier operations
EarlierLog(n) == [i \in 1..n |-> [HistoryEntry(i) EXCEPT !.proxyId = ProxyId(3)]]

InitSavers ==
    /\ NoRetry
    /\ NoResolve
    /\ NoRotation
    /\ NoHandler
    /\ \E n \in {0, 97, 98, 99, 100} : histFile = EarlierLog(n)
    /\ histAppended = histFile
    /\ histRead = [op |-> "none", value |-> <<>>]
    /\ savers \in [1..MaxSavers -> {MkSaver(left) : left \in 1..MaxSaved}]

\* Operation s runs one pass of its history loop
SaverAppend(s) ==
    /\ s \in DOMAIN savers
    /\ savers[s].left > 0
    /\ LET next == SaveNext(histFile, savers[s], SaverEntry(s, Len(histAppended)))
       IN  /\ histFile' = next.file
           /\ histAppended' = histAppended \o next.appended
           /\ savers' = [savers EXCEPT ![s] = next.saver]
    /\ UNCHANGED <<histRead, rvars, bvars, wvars, avars>>

NextSavers == \E s \in 1..MaxSavers : SaverAppend(s)

SpecSavers == InitSavers /\ [][NextSavers]_vars

\* C18: appends of rotate operations that run at the same time are
\* serialized: whatever the interleaving of their history loops, no appended
\* entry is lost: the log holds, in call order, every entry handed to
\* addRotation that is among the last 100.
C18_ConcurrentAppendsLoseNoEntry ==
    histFile = SliceLast(histAppended, maxEntries)

\* Two operations have saved two entries each, alternately, on a log of 99
C18_Witness ==
    /\ \A s \in DOMAIN savers : savers[s].left = 0
    /\ Len(histAppended) = 103
    /\ histAppended[100].proxyId = ProxyId(1)
    /\ histAppended[101].proxyId = ProxyId(2)
    /\ histAppended[102].proxyId = ProxyId(1)
    /\ histAppended[103].proxyId = ProxyId(2)
    /\ Len(histFile) = 100
    /\ histFile[100] = histAppended[103]

-----------------------------------------------------------------------------
(* The history store when reading or writing its file can fail              *)

MaxIOAppends == 3

\* The number of addRotation calls made on top of the earlier log
AppendsMade ==
    Cardinality({i \in DOMAIN histAppended : histAppended[i].proxyId # ProxyId(3)})

InitHistoryIO ==
    /\ NoRetry
    /\ NoResolve
    /\ NoRotation
    /\ NoHandler
    /\ \E n \in {0, 2, 98, 99, 100} : histFile = EarlierLog(n)
    /\ histAppended = histFile
    /\ histRead = [op |-> "none", value |-> <<>>]
    /\ savers = <<>>

\* history.addRotation(entry): readFileSync / JSON.parse may throw inside
\* getHistory, writeFileSync may throw inside addRotation
AddRotationIO ==
    /\ AppendsMade < MaxIOAppends
    /\ \E readable \in BOOLEAN, writable \in BOOLEAN :
          LET entry == HistoryEntry(Len(histAppended) + 1)
          IN  /\ histFile' = addRotation(histFile, entry, readable, writable)
              /\ histAppended' = Append(histAppended, entry)
    /\ UNCHANGED <<histRead, savers, rvars, bvars, wvars, avars>>

\* history.getHistory(proxyId?) or history.getLastRotation(proxyId) when
\* the file cannot be read: [] and null
ReadFails ==
    /\ \E proxyId \in {<<>>, ProxyId(3)} :
          \/ histRead' = [op |-> "getHistory",
                          value |-> getHistory(histFile, FALSE, proxyId)]
          \/ histRead' = [op |-> "getLastRotation",
                          value |-> getLastRotation(histFile, FALSE, proxyId)]
    /\ UNCHANGED <<histFile, histAppended, savers, rvars, bvars, wvars, avars>>

NextHistoryIO ==
    \/ AddRotationIO
    \/ GetHistory
    \/ GetLastRotation
    \/ ReadFails

SpecHistoryIO == InitHistoryIO /\ [][NextHistoryIO]_vars

\* C32: getHistory and getLastRotation leave the stored log as it is; an
\* addRotation call leaves it as it is or turns it into a tail of the old
\* log (entries removed from the head only, the others unaltered and in
\* order) followed by the new entry.
C32_LogChangesByAppendAndHeadRemovalOnly ==
    [][ /\ histAppended' = histAppended => histFile' = histFile
        /\ histAppended' # histAppended =>
             \/ histFile' = histFile
             \/ \E d \in 0..Len(histFile) :
                   histFile' = Append(SubSeq(histFile, d + 1, Len(histFile)),
                                      histAppended'[Len(histAppended')]) ]_vars

\* A full log after one more append, read back by getLastRotation
C32_Witness ==
    /\ Len(histAppended) = 101
    /\ Len(histFile) = 100
    /\ histFile[1] = histAppended[2]
    /\ histFile[100].proxyId # ProxyId(3)
    /\ histRead.op = "getLastRotation"
    /\ histRead.value = <<histFile[99]>>

\* C38: an addRotation call removes entries only by evicting the oldest:
\* every entry among the 99 most recent before the call is in the log after
\* it, also when the read or the write of the file fails during the call.
C38_AppendKeepsTheRecentEntries ==
    [][histAppended' # histAppended =>
         \A i \in DOMAIN histFile :
            i > Len(histFile) - (maxEntries - 1) =>
               \E j \in DOMAIN histFile' : histFile'[j] = histFile[i]]_vars

-----------------------------------------------------------------------------
(* Filters                                                                  *)

Str_online  == <<"o", "n", "l", "i", "n", "e">>
Str_offline == <<"o", "f", "f", "l", "i", "n", "e">>
Str_older   == <<"o", "l", "d", "e", "r">>
Str_than    == <<"t", "h", "a", "n">>
Str_older_than_2h ==
    <<"o", "l", "d", "e", "r", "-", "t", "h", "a", "n", "-", "2", "h">>

\* String.prototype.trim, for strings padded with spaces
RECURSIVE Trim(_)
Trim(s) ==
    IF s = <<>> THEN s
    ELSE IF s[1] = " " THEN Trim(SubSeq(s, 2, Len(s)))
    ELSE IF s[Len(s)] = " " THEN Trim(SubSeq(s, 1, Len(s) - 1))
    ELSE s

\* filterByStatus(proxies, 'online')
filterByStatusOnline(list) ==
    LET Test(p) == p.isOnline = "true" \/ p.status = "active"
    IN  SelectSeq(list, Test)

\* filterByStatus(proxies, 'offline')
filterByStatusOffline(list) ==
    LET Test(p) == p.isOnline = "false" \/ p.status = "inactive" \/ p.status = "offline"
    IN  SelectSeq(list, Test)

HourMs == 60 * 60 * 1000

\* filterByRotationAge without the test for a missing rotated_at: a proxy
\* never rotated has no rotation older than the cutoff
filterByRotationAgeRotatedOnly(list, hours, now) ==
    LET cutoffTime == now - (hours * HourMs)
        Test(p) == p.rotated_at # -1 /\ p.rotated_at < cutoffTime
    IN  SelectSeq(list, Test)

\* filterByRotationAge(proxies, hours) when Date.now() reads `now`
filterByRotationAge(list, hours, now) ==
    LET cutoffTime == now - (hours * HourMs)
        Test(p) == p.rotated_at = -1 \/ p.rotated_at < cutoffTime
    IN  SelectSeq(list, Test)

IsSeparator(c) == c = "_" \/ c = "-"
IsDigit(c) == c \in {"0", "1", "2", "3", "4", "5", "6", "7", "8", "9"}
DigitValue(c) == CHOOSE d \in 0..9 : DigitChar(d) = c

\* /older[_-]than/ matches s with "older" at position i
OlderThanAt(s, i) ==
    /\ i + 9 <= Len(s)
    /\ SubSeq(s, i, i + 4) = Str_older
    /\ IsSeparator(s[i + 5])
    /\ SubSeq(s, i + 6, i + 9) = Str_than

\* identifier.match(/older[_-]than/) is not null
MatchesOlderThan(s) == \E i \in 1..Len(s) : OlderThanAt(s, i)

\* The length of the run of digits of s that starts at position j
RECURSIVE DigitRun(_, _)
DigitRun(s, j) ==
    IF j <= Len(s) /\ IsDigit(s[j]) THEN 1 + DigitRun(s, j + 1) ELSE 0

\* parseInt of the digits s[j..j+n-1]
RECURSIVE ParseInt(_, _, _)
ParseInt(s, j, n) ==
    IF n = 0 THEN 0 ELSE 10 * ParseInt(s, j, n - 1) + DigitValue(s[j + n - 1])

\* /older[_-]than[_-](\d+)([hd])/ matches s with "older" at position i: the
\* digits are followed by h or d only when the whole run of digits is taken
AgeMatchAt(s, i) ==
    /\ OlderThanAt(s, i)
    /\ i + 10 <= Len(s)
    /\ IsSeparator(s[i + 10])
    /\ LET n == DigitRun(s, i + 11)
       IN  /\ n >= 1
           /\ i + 11 + n <= Len(s)
           /\ s[i + 11 + n] \in {"h", "d"}

\* The hours of the leftmost match of the age pattern, -1 if there is none
AgeHours(s) ==
    LET at == {i \in 1..Len(s) : AgeMatchAt(s, i)}
    IN  IF at = {} THEN -1
        ELSE LET i == CHOOSE x \in at : \A y \in at : x <= y
                 n == DigitRun(s, i + 11)
                 value == ParseInt(s, i + 11, n)
             IN  IF s[i + 11 + n] = "d" THEN value * 24 ELSE value

\* applyFilter answering a token it does not recognize with no proxy
applyFilterUnknownEmpty(list, filter, now) ==
    IF filter = <<>> THEN list
    ELSE LET lowerFilter == Trim(ToLowerCase(filter))
         IN  IF lowerFilter = Str_online THEN filterByStatusOnline(list)
             ELSE IF lowerFilter = Str_offline THEN filterByStatusOffline(list)
             ELSE IF AgeHours(lowerFilter) # -1
                  THEN filterByRotationAge(list, AgeHours(lowerFilter), now)
             ELSE <<>>

\* applyFilter(proxies, filter) when Date.now() reads `now`
applyFilter(list, filter, now) ==
    IF filter = <<>> THEN list
    ELSE LET lowerFilter == Trim(ToLowerCase(filter))
         IN  IF lowerFilter = Str_online THEN filterByStatusOnline(list)
             ELSE IF lowerFilter = Str_offline THEN filterByStatusOffline(list)
             ELSE IF AgeHours(lowerFilter) # -1
                  THEN filterByRotationAge(list, AgeHours(lowerFilter), now)
             ELSE list

-----------------------------------------------------------------------------
(* coronium_rotate_modem: choosing the targets                              *)

\* Step 1: the initial proxy set, for a call with all set or an identifier
Step1Targets(list, args, now) ==
    IF args.all THEN list
    ELSE LET identifier == Trim(args.proxy_identifier)
         IN  IF \/ identifier = Str_online
                \/ identifier = Str_offline
                \/ MatchesOlderThan(identifier)
             THEN applyFilter(list, identifier, now)
             ELSE findProxyByIdentifier(list, identifier)

\* Step 2: the additional filter, if one is given
Step2Targets(list, args, now) ==
    IF args.filter # <<>> THEN applyFilter(list, args.filter, now) ELSE list

\* targetProxies after steps 1 and 2
ResolvedTargets(list, args, now) ==
    Step2Targets(Step1Targets(list, args, now), args, now)

\* Step 4 selecting the online matches whenever there is one, however many
Step4AnyOnline(targetProxies, args) ==
    LET onlineProxies == filterByStatusOnline(targetProxies)
    IN  IF Len(onlineProxies) >= 1 /\ args.auto_select
        THEN [kind |-> "rotate", targets |-> onlineProxies, shown |-> <<>>]
        ELSE [kind |-> "disambiguation", targets |-> <<>>, shown |-> targetProxies]

\* Step 4, for several matches without all: the single online match if
\* auto_select is not false, otherwise the selection message
Step4(targetProxies, args) ==
    LET onlineProxies == filterByStatusOnline(targetProxies)
    IN  IF Len(onlineProxies) = 1 /\ args.auto_select
        THEN [kind |-> "rotate", targets |-> onlineProxies, shown |-> <<>>]
        ELSE [kind |-> "disambiguation", targets |-> <<>>, shown |-> targetProxies]

\* Steps 1 to 4 with a missing identifier read as a request for every proxy
SelectTargetsEmptyAsAll(list, args, now) ==
    LET targetProxies ==
            IF args.proxy_identifier = <<>> THEN Step2Targets(list, args, now)
            ELSE ResolvedTargets(list, args, now)
    IN  IF Len(targetProxies) = 0
        THEN [kind |-> "notFound", targets |-> <<>>, shown |-> list]
        ELSE IF Len(targetProxies) > 1 /\ ~args.all /\ args.proxy_identifier # <<>>
        THEN Step4(targetProxies, args)
        ELSE [kind |-> "rotate", targets |-> targetProxies, shown |-> <<>>]

\* Steps 1 to 4 on a non-empty account listing: the proxies to rotate, or
\* the kind of message returned and the proxies it lists
SelectTargets(list, args, now) ==
    IF ~args.all /\ args.proxy_identifier = <<>>
    THEN [kind |-> "listing", targets |-> <<>>, shown |-> list]
    ELSE LET targetProxies == ResolvedTargets(list, args, now)
         IN  IF Len(targetProxies) = 0
             THEN [kind |-> "notFound", targets |-> <<>>, shown |-> list]
             ELSE IF Len(targetProxies) > 1 /\ ~args.all
             THEN Step4(targetProxies, args)
             ELSE [kind |-> "rotate", targets |-> targetProxies, shown |-> <<>>]

\* The ids of the proxies of a list
Ids(list) == {list[i].id : i \in 1..Len(list)}

\* The history loop without the success test: an entry for every result
RECURSIVE SaveResultsAll(_, _, _)
SaveResultsAll(file, appended, results) ==
    IF results = <<>> THEN [file |-> file, appended |-> appended]
    ELSE LET result == Head(results)
             entry  == [id |-> Len(appended) + 1, proxyId |-> result.proxyId,
                        proxyName |-> result.proxyName, oldIp |-> result.oldIp,
                        newIp |-> IF result.newIp # Absent THEN result.newIp
                                  ELSE "unknown",
                        success |-> result.success]
         IN  SaveResultsAll(addRotation(file, entry, TRUE, TRUE),
                            Append(appended, entry), Tail(results))

\* The history loop over the results: an entry for every successful result,
\* with a fresh id and 'unknown' for a missing newIp; the log file is
\* readable and writable
RECURSIVE SaveResults(_, _, _)
SaveResults(file, appended, results) ==
    IF results = <<>> THEN [file |-> file, appended |-> appended]
    ELSE LET result == Head(results)
             entry  == [id |-> Len(appended) + 1, proxyId |-> result.proxyId,
                        proxyName |-> result.proxyName, oldIp |-> result.oldIp,
                        newIp |-> IF result.newIp # Absent THEN result.newIp
                                  ELSE "unknown",
                        success |-> result.success]
         IN  IF result.success
             THEN SaveResults(addRotation(file, entry, TRUE, TRUE),
                              Append(appended, entry), Tail(results))
             ELSE SaveResults(file, appended, Tail(results))

\* How the report presents one result: under the success or the failure
\* mark, with the new IP or with the interpolated result.error ("undefined"
\* when the result has no error field)
ReportLine(result) ==
    IF result.success
    THEN [mark |-> "success", detail |-> result.newIp]
    ELSE [mark |-> "failed",
          detail |-> IF result.error # Absent THEN result.error ELSE "undefined"]

\* The lines of the report, one per result
Report(results) == [n \in 1..Len(results) |-> ReportLine(results[n])]

\* The report on the results: one proxy rotated or failed, or a batch summary
ResultKind(results) ==
    IF Len(results) = 1
    THEN IF results[1].success THEN "rotated" ELSE "failed"
    ELSE "summary"

-----------------------------------------------------------------------------
(* coronium_rotate_modem: the inputs                                        *)

\* The reading of Date.now() during the call
NowMs == 10 * HourMs

\* The account: a US proxy never rotated, with rotation and status URL; a US
\* proxy rotated an hour ago, with a rotation URL only; a UA proxy rotated
\* five hours ago, without rotation token
AccountProxy1(online) ==
    MkProxy(ProxyId(1), Name_1_US_x, "ip1",
            IF online THEN "true" ELSE "false",
            IF online THEN "active" ELSE "inactive", -1, TRUE, TRUE, TRUE)

AccountProxy2(online) ==
    MkProxy(ProxyId(2), Name_34_US_def, "ip1",
            IF online THEN "true" ELSE "false",
            IF online THEN "active" ELSE "inactive", NowMs - HourMs,
            TRUE, FALSE, FALSE)

AccountProxy3 ==
    MkProxy(ProxyId(3), Name_2_UA_y, "ip2", "absent", "active",
            NowMs - 5 * HourMs, FALSE, FALSE, FALSE)

\* What getProxies can return to the handler: no proxy, or the three proxies
AccountListings ==
    {<<>>} \cup {<<AccountProxy1(a), AccountProxy2(b), AccountProxy3>> :
                    a \in BOOLEAN, b \in BOOLEAN}

Str_all == <<"a", "l", "l">>

HandlerIdentifiers ==
    {<<>>, <<"u", "s">>, <<" ", "u", "a">>, Str_offline, <<"z", "z">>, Str_all,
     <<"O", "f", "f", "l", "i", "n", "e">>}

Str_older_than_1d ==
    <<"O", "l", "d", "e", "r", "-", "t", "h", "a", "n", "-", "1", "d">>

HandlerFilters ==
    {<<>>, Str_online, Str_older_than_2h, Str_older_than_1d, <<"z", "z">>}

ArgsPool ==
    {MkArgs(identifier, all, filter, wait, autoSelect) :
        identifier \in HandlerIdentifiers, all \in BOOLEAN,
        filter \in HandlerFilters, wait \in BOOLEAN, autoSelect \in BOOLEAN}
    \cup {[MkArgs(<<>>, FALSE, <<>>, TRUE, TRUE) EXCEPT !.wellTyped = FALSE]}

-----------------------------------------------------------------------------
(* coronium_rotate_modem: the steps of a call                               *)

\* The number of history entries beyond which no further call is made
MaxRecorded == 1

\* The handler returns r
Respond(r) ==
    /\ response' = r
    /\ hPc' = "responded"

Message(kind, shown) ==
    [NoResponse EXCEPT !.kind = kind, !.listed = Ids(shown)]

\* The tool call without the token check: getProxies is called with
\* whatever the token store holds
RequestWithoutTokenCheck ==
    /\ hPc \in {"idle", "responded"}
    /\ Len(histAppended) < MaxRecorded
    /\ \E args \in ArgsPool :
          /\ parsed' = args
          /\ IF ~args.wellTyped THEN Respond(Message("invalid", <<>>))
             ELSE /\ hPc' = "fetching"
                  /\ response' = NoResponse
    /\ fetched' = <<>>
    /\ targets' = <<>> /\ apiAvail' = FALSE /\ wf' = <<>> /\ obs' = <<>>
    /\ ctl' = [pc |-> "off", i |-> 0, results |-> <<>>]
    /\ UNCHANGED <<tokenStore, rvars, bvars, hvars>>

\* The tool is called: validation and the token check, up to getProxies
Request ==
    /\ hPc \in {"idle", "responded"}
    /\ Len(histAppended) < MaxRecorded
    /\ \E args \in ArgsPool :
          /\ parsed' = args
          /\ IF ~args.wellTyped THEN Respond(Message("invalid", <<>>))
             ELSE IF tokenStore = Absent THEN Respond(Message("noToken", <<>>))
             ELSE /\ hPc' = "fetching"
                  /\ response' = NoResponse
    /\ fetched' = <<>>
    /\ targets' = <<>> /\ apiAvail' = FALSE /\ wf' = <<>> /\ obs' = <<>>
    /\ ctl' = [pc |-> "off", i |-> 0, results |-> <<>>]
    /\ UNCHANGED <<tokenStore, rvars, bvars, hvars>>

\* getProxies returned `list`: steps 1 to 5, up to the call of rotateProxy
\* or rotateMultipleProxies, which is the next step (RotateCall, BatchCall)
OnProxies(list) ==
    IF Len(list) = 0
    THEN Respond(Message("noProxies", <<>>)) /\ UNCHANGED wvars
    ELSE LET sel == SelectTargets(list, parsed, NowMs)
         IN  IF sel.kind # "rotate"
             THEN Respond(Message(sel.kind, sel.shown)) /\ UNCHANGED wvars
             ELSE /\ targets' = sel.targets
                  /\ apiAvail' = TRUE
                  /\ wf' = [k \in 1..Len(sel.targets) |-> IdleWorkflow]
                  /\ ctl' = [pc |-> IF Len(sel.targets) = 1 THEN "single" ELSE "batch",
                             i |-> 0, results |-> <<>>]
                  /\ hPc' = "rotating"
                  /\ UNCHANGED <<obs, response>>

\* A handler that keeps a snapshot of the account and works on it when
\* getProxies rejects
AccountAnswerFromSnapshot ==
    /\ hPc = "fetching"
    /\ \/ /\ OnProxies(<<AccountProxy1(TRUE), AccountProxy2(TRUE), AccountProxy3>>)
          /\ UNCHANGED fetched
       \/ \E list \in AccountListings :
             /\ fetched' = list
             /\ OnProxies(list)
    /\ UNCHANGED <<tokenStore, parsed, rvars, bvars, hvars>>

\* The answer of getProxies arrives: a rejection goes to the catch block
AccountAnswer ==
    /\ hPc = "fetching"
    /\ \/ /\ Respond(Message("error", <<>>))
          /\ UNCHANGED <<fetched, wvars>>
       \/ \E list \in AccountListings :
             /\ fetched' = list
             /\ OnProxies(list)
    /\ UNCHANGED <<tokenStore, parsed, rvars, bvars, hvars>>

\* rotateProxy or rotateMultipleProxies returned: save to history and
\* report, after one more getProxies for a single successful rotation with
\* wait_for_completion
RotationReturned ==
    /\ hPc = "rotating"
    /\ \/ ctl.pc = "single" /\ wf[1].pc = "done"
       \/ ctl.pc = "returned"
    /\ LET results == IF ctl.pc = "single" THEN <<wf[1].result>> ELSE ctl.results
           saved   == SaveResults(histFile, histAppended, results)
       IN  /\ histFile' = saved.file
           /\ histAppended' = saved.appended
           /\ IF /\ Len(results) = 1
                 /\ results[1].success
                 /\ parsed.wait_for_completion
                 /\ results[1].newIp # "verification failed"
              THEN hPc' = "verifying" /\ response' = response
              ELSE Respond([NoResponse EXCEPT !.kind = ResultKind(results),
                                              !.results = results])
    /\ UNCHANGED <<histRead, savers, tokenStore, parsed, fetched, wvars, rvars, bvars>>

\* The answer of the getProxies that looks up the rotated proxy's new IP
VerifyAnswer ==
    /\ hPc = "verifying"
    /\ LET result == wf[1].result
           report == [NoResponse EXCEPT !.kind = "rotated", !.results = <<result>>]
       IN  \/ Respond(report)
           \/ \E list \in FetchedListings(targets[1]) :
                 LET updatedProxy == FindById(list, result.proxyId)
                 IN  Respond([report EXCEPT !.verified =
                                 IF updatedProxy.found /\ updatedProxy.ext_ip # result.oldIp
                                 THEN <<updatedProxy.ext_ip>> ELSE <<>>])
    /\ UNCHANGED <<tokenStore, parsed, fetched, wvars, rvars, bvars, hvars>>

InitHandler ==
    /\ NoRetry
    /\ NoResolve
    /\ NoRotation
    /\ EmptyHistory
    /\ tokenStore \in {Absent, "tok"}
    /\ hPc = "idle"
    /\ parsed = MkArgs(<<>>, FALSE, <<>>, TRUE, TRUE)
    /\ fetched = <<>>
    /\ response = NoResponse

NextHandler ==
    \/ Request
    \/ AccountAnswer
    \/ \E k \in Workflows : RotateCall(k)
    \/ BatchCall
    \/ BatchResume
    \/ \E k \in Workflows : WorkflowStep(k)
    \/ RotationReturned
    \/ VerifyAnswer

SpecHandler == InitHandler /\ [][NextHandler]_vars

-----------------------------------------------------------------------------
(* Properties of a RotationResult                                           *)

Returned(k) == k \in DOMAIN wf /\ wf[k].pc = "done"

\* C1: a returned result with success=true carries a newIp that is a
\* non-empty string and differs from oldIp, whichever step set it.
C1_SuccessCarriesNewIp ==
    \A k \in Workflows :
        (Returned(k) /\ wf[k].result.success) =>
            /\ wf[k].result.newIp # Absent
            /\ wf[k].result.newIp # wf[k].result.oldIp

-----------------------------------------------------------------------------
(* Properties of the batch                                                  *)

\* The workflows started and not yet returned
InFlight == {k \in DOMAIN wf : wf[k].pc \notin {"idle", "done"}}

Unstarted == {k \in DOMAIN wf : wf[k].pc = "idle"}

\* C8: at most 3 per-proxy workflows are in flight at any time.
C8_AtMostThreeInFlight == Cardinality(InFlight) <= 3

\* Three workflows in flight while a fourth target waits
C8_Witness ==
    /\ ctl.pc = "awaiting"
    /\ Cardinality(InFlight) = 3
    /\ Unstarted # {}

\* C9 as stated: whenever an unstarted target remains and fewer than 3
\* workflows are in flight, the controller can start the next target's
\* workflow at once, without waiting for the other workflows in flight.
C9_NextStartsWhenSlotFrees ==
    (ctl.pc = "awaiting" /\ Unstarted # {} /\ Cardinality(InFlight) < 3) =>
        ENABLED BatchResume

\* C9 amended: the controller works in fixed chunks of 3: a target's
\* workflow is started only in a step taken when no workflow is in flight,
\* that is after every workflow of the previous chunk has returned.
C9_StartsOnlyWhenNoneInFlight ==
    [][\A k \in Workflows :
          (k \in DOMAIN wf /\ wf[k].pc = "idle" /\ wf'[k].pc # "idle") => InFlight = {}]_vars

\* The fourth target started after the three of the first chunk returned
C9_Witness ==
    /\ Len(targets) = 4
    /\ \A k \in 1..3 : wf[k].pc = "done"
    /\ wf[4].pc = "trigger"

\* The oldIp rotateProxy computes for a proxy
OldIpOf(proxy) == IF proxy.ext_ip # Absent THEN proxy.ext_ip ELSE "unknown"

\* C10: the batch returns exactly one result per target, in the targets'
\* order, each the result of that target's own workflow (its id, name and
\* oldIp, success exactly when it has no error and a newIp that is new); a
\* workflow whose trigger request fails returns a failed result, and that
\* step changes no other workflow; a returned workflow's result never changes.
C10_OneIndependentResultPerTarget ==
    /\ [](ctl.pc = "returned" =>
            /\ Len(ctl.results) = Len(targets)
            /\ \A k \in DOMAIN wf :
                  /\ wf[k].pc = "done"
                  /\ ctl.results[k] = wf[k].result
                  /\ ctl.results[k].proxyId = targets[k].id
                  /\ ctl.results[k].proxyName = targets[k].name
                  /\ ctl.results[k].oldIp = OldIpOf(targets[k])
                  /\ ctl.results[k].success =>
                        /\ ctl.results[k].error = Absent
                        /\ ctl.results[k].newIp \notin
                              {"verification timeout", "unknown", OldIpOf(targets[k])})
    /\ [][\A k \in Workflows :
            /\ (k \in DOMAIN wf /\ wf[k].pc = "trigger" /\ wf'[k].pc = "done") =>
                  /\ ~wf'[k].result.success
                  /\ wf'[k].result.error # Absent
                  /\ \A j \in DOMAIN wf : j # k => wf'[j] = wf[j]
            /\ (k \in DOMAIN wf /\ wf[k].pc = "done") => wf'[k] = wf[k]]_vars

\* Four targets, the trigger of the second failed, the others rotated
C10_Witness ==
    /\ ctl.pc = "returned"
    /\ Len(ctl.results) = 4
    /\ ctl.results[2].error = "Request failed with status code 400"
    /\ \A k \in {1, 3, 4} : ctl.results[k].success /\ ctl.results[k].newIp = "ip2"

-----------------------------------------------------------------------------
(* Properties of the target selection of coronium_rotate_modem               *)

\* The rotation URL of targets[k] has been requested: the workflow has left
\* its start other than by the missing-token return
TriggerSent(k) ==
    /\ wf[k].pc # "idle"
    /\ ~(/\ wf[k].pc = "done"
         /\ wf[k].result.error = "No rotation token available for this proxy")

\* The call has resolved its identifier and filter to several proxies, all unset
SeveralMatches ==
    /\ fetched # <<>>
    /\ parsed.wellTyped
    /\ ~parsed.all
    /\ parsed.proxy_identifier # <<>>
    /\ Len(ResolvedTargets(fetched, parsed, NowMs)) > 1

\* The call returned the selection message for exactly the matches and has
\* no rotation target
ListedOnly ==
    /\ response.kind = "disambiguation"
    /\ response.listed = Ids(ResolvedTargets(fetched, parsed, NowMs))
    /\ targets = <<>>
    /\ \A k \in DOMAIN wf : ~TriggerSent(k)

\* C7 as stated: whenever identifier and filter resolve to more than one
\* proxy and all is not set, the caller gets the disambiguation listing and
\* no rotation-trigger request is sent.
C7_SeveralMatchesAreListedNotRotated ==
    SeveralMatches => ListedOnly

\* C7, amended: whenever identifier and filter resolve to more than one proxy
\* and all is not set, the caller gets the disambiguation listing and no
\* rotation-trigger request is sent, unless auto_select is enabled and
\* exactly one of the matches is online: then that proxy alone is the
\* rotation target and no listing is returned.
C7_SeveralMatchesAreListedUnlessOneIsOnline ==
    SeveralMatches =>
        LET online == filterByStatusOnline(ResolvedTargets(fetched, parsed, NowMs))
        IN  IF parsed.auto_select /\ Len(online) = 1
            THEN /\ targets = online
                 /\ response.kind # "disambiguation"
            ELSE ListedOnly

\* Two US proxies, both online, auto_select left enabled: the listing of the
\* two is returned
C7_Witness ==
    /\ SeveralMatches
    /\ hPc = "responded"
    /\ parsed.auto_select
    /\ Len(filterByStatusOnline(ResolvedTargets(fetched, parsed, NowMs))) = 2
    /\ response.kind = "disambiguation"
    /\ response.listed = {ProxyId(1), ProxyId(2)}

-----------------------------------------------------------------------------
(* Properties of the history kept by coronium_rotate_modem                   *)

\* The results the rotation of the current call returned to the handler
HandlerResults ==
    IF ctl.pc = "single" THEN <<wf[1].result>> ELSE ctl.results

\* The step in which the handler gets the results, saves and reports them
ResultsHandled == hPc = "rotating" /\ hPc' # "rotating"

\* The entries appended by the step are those of the results `saved`, one
\* each in their order, and they are at the tail of the log file
AppendedFor(saved) ==
    /\ Len(histAppended') = Len(histAppended) + Len(saved)
    /\ SubSeq(histAppended', 1, Len(histAppended)) = histAppended
    /\ \A n \in 1..Len(saved) :
          LET entry == histAppended'[Len(histAppended) + n]
          IN  /\ entry.proxyId = saved[n].proxyId
              /\ entry.proxyName = saved[n].proxyName
              /\ entry.oldIp = saved[n].oldIp
              /\ entry.success = saved[n].success
              /\ entry = histFile'[Len(histFile') - Len(saved) + n]

\* C11 as stated: every result of a rotate operation, successful, failed or
\* unconfirmed, is appended to the history as one entry.
C11_EveryResultIsRecorded ==
    [][ResultsHandled => AppendedFor(HandlerResults)]_vars

\* C11, amended: every successful result of a rotate operation is appended
\* to the history as one entry, in the order of the results; failed and
\* unconfirmed results are not recorded, and no other step of the operation
\* changes the history.
C11_EverySuccessfulResultIsRecorded ==
    [][IF ResultsHandled
       THEN LET Ok(r) == r.success
            IN  AppendedFor(SelectSeq(HandlerResults, Ok))
       ELSE UNCHANGED <<histFile, histAppended>>]_vars

\* A batch reported with a successful and a failed result, and one entry saved
C11_Witness ==
    /\ hPc = "responded"
    /\ response.kind = "summary"
    /\ \E n \in 1..Len(response.results) : response.results[n].success
    /\ \E n \in 1..Len(response.results) : ~response.results[n].success
    /\ Len(histAppended) = 1
    /\ histFile = histAppended

-----------------------------------------------------------------------------
(* Properties of the trigger step of rotateProxy                            *)

\* Workflow k did nothing but send its trigger request once: no timed wait,
\* no status request, no account fetch
TriggerOnly(k) ==
    /\ obs[k].nTrigger = 1
    /\ obs[k].steps = <<"trigger">>
    /\ obs[k].waitedMs = 0
    /\ obs[k].nStatus = 0
    /\ obs[k].nFetch = 0

\* Workflow k returned a failure with an error reason
FailedWithReason(k) ==
    /\ wf[k].pc = "done"
    /\ ~wf[k].result.success
    /\ wf[k].result.error # Absent

\* C12: a trigger response whose body carries the provider's "expired" error,
\* whatever its HTTP status, ends the workflow at once with success=false:
\* no settle wait, no status poll, no fallback fetch, no second trigger.
C12_ExpiredBodyEndsWorkflow ==
    \A k \in DOMAIN obs :
        obs[k].trigger \in {"okErrorBody", "httpError"} =>
            /\ wf[k].pc = "done"
            /\ ~wf[k].result.success
            /\ TriggerOnly(k)

\* C13: a trigger request answered with a non-2xx status, or not answered
\* at all, takes the workflow straight to a returned result with
\* success=false and a non-empty error reason: no settle wait, no status
\* poll, no fallback fetch.
C13_RejectedTriggerFailsAtOnce ==
    \A k \in DOMAIN obs :
        obs[k].trigger \in {"httpError", "netError"} =>
            /\ FailedWithReason(k)
            /\ TriggerOnly(k)

\* A trigger answered with a non-2xx status, and the failure returned
C13_Witness ==
    /\ obs[1].trigger = "httpError"
    /\ wf[1].pc = "done"
    /\ wf[1].result.error = "Request failed with status code 400"
    /\ obs[1].steps = <<"trigger">>

\* The error text in the body with which the provider rejects a trigger
ProviderErrorText == "This token has expired! Please use new one!"

\* C14: when the provider rejects the trigger with an error body, the error
\* reason of the returned result is the error text of that body, unchanged.
C14_ProviderErrorTextIsPassedThrough ==
    \A k \in DOMAIN obs :
        (obs[k].trigger = "httpError" /\ wf[k].pc = "done") =>
            wf[k].result.error = ProviderErrorText

\* The default number of attempts of retryWithBackoff
maxRetries == 3

\* C15: a connection or timeout error of the trigger request is retried with
\* backoff and counts as a failure only after the attempts are exhausted: a
\* workflow that returned after such an error has sent the trigger
\* maxRetries times, with waits in between.
C15_TransientTriggerErrorIsRetried ==
    \A k \in DOMAIN obs :
        (obs[k].trigger = "netError" /\ wf[k].pc = "done") =>
            /\ obs[k].nTrigger = maxRetries
            /\ obs[k].waitedMs > 0

-----------------------------------------------------------------------------
(* Properties of the report of coronium_rotate_modem                        *)

\* The result of a workflow whose trigger was accepted and whose polling and
\* fallback confirmed no IP change
Unconfirmed(result) ==
    ~result.success /\ result.error = Absent

\* The result of a workflow whose trigger request was rejected or got no answer
TriggerFailure(result) ==
    /\ ~result.success
    /\ result.error \in {AxiosMessage(outcome) : outcome \in {"httpError", "netError"}}

\* C16: an unconfirmed rotation is reported apart from a trigger failure:
\* in no report do the two get the same classification.
C16_UnconfirmedReportedApartFromTriggerFailure ==
    hPc = "responded" =>
        \A i, j \in 1..Len(response.results) :
            ( /\ Unconfirmed(response.results[i])
              /\ TriggerFailure(response.results[j]) ) =>
                Report(response.results)[i].mark # Report(response.results)[j].mark

\* C17: a call with proxy_identifier "all" (all flag unset, no filter)
\* selects every proxy of the account as rotation target.
C17_IdentifierAllSelectsEveryProxy ==
    ( /\ fetched # <<>>
      /\ parsed.wellTyped
      /\ ~parsed.all
      /\ Trim(parsed.proxy_identifier) = Str_all
      /\ parsed.filter = <<>> ) =>
        targets = fetched

\* applyFilter recognizes the token: online, offline or an age filter, after
\* lower-casing and trimming
IsFilterToken(filter) ==
    LET lowerFilter == Trim(ToLowerCase(filter))
    IN  \/ lowerFilter = Str_online
        \/ lowerFilter = Str_offline
        \/ AgeHours(lowerFilter) # -1

\* C27: when the identifier of a call (all flag unset) is a filter token
\* that applyFilter recognizes, in any letter case, the initial target set is
\* applyFilter of the whole account listing with that token.
C27_FilterTokenAsIdentifierFiltersAccount ==
    ( /\ fetched # <<>>
      /\ parsed.wellTyped
      /\ ~parsed.all
      /\ IsFilterToken(parsed.proxy_identifier) ) =>
        Step1Targets(fetched, parsed, NowMs)
            = applyFilter(fetched, parsed.proxy_identifier, NowMs)

\* C28: an age filter selects the proxies never rotated and those whose
\* last rotation is more than N hours back (N * 24 hours for unit d): a call
\* with all set and the filter older-than-2h or Older-than-1d rotates exactly
\* those proxies of the account.
C28_AgeFilterKeepsNeverRotatedAndOlder ==
    \A age \in {[text |-> Str_older_than_2h, hours |-> 2],
                 [text |-> Str_older_than_1d, hours |-> 24]} :
        LET Older(p) ==
                \/ p.rotated_at = -1
                \/ NowMs - p.rotated_at > age.hours * HourMs
        IN  ( /\ hPc = "rotating"
              /\ parsed.all
              /\ parsed.filter = age.text ) =>
                targets = SelectSeq(fetched, Older)

\* all with older-than-2h: the proxy never rotated and the one rotated five
\* hours ago are being rotated, the one rotated an hour ago is not
C28_Witness ==
    /\ hPc = "rotating"
    /\ parsed.all
    /\ parsed.filter = Str_older_than_2h
    /\ Len(targets) = 2
    /\ targets[1].rotated_at = -1
    /\ targets[2].rotated_at = NowMs - 5 * HourMs

\* C29: a call without identifier and with all unset, answered by a
\* non-empty account listing, returns the list of all the account's proxies
\* (not an error message), starts no rotation and appends nothing to the
\* history.
C29_NoIdentifierListsTheAccount ==
    /\ []( ( /\ parsed.wellTyped
             /\ ~parsed.all
             /\ parsed.proxy_identifier = <<>>
             /\ fetched # <<>> ) =>
               /\ hPc = "responded"
               /\ response.kind = "listing"
               /\ response.listed = Ids(fetched)
               /\ response.results = <<>>
               /\ targets = <<>>
               /\ wf = <<>> )
    /\ [][( /\ parsed'.wellTyped
            /\ ~parsed'.all
            /\ parsed'.proxy_identifier = <<>> ) =>
              UNCHANGED <<histFile, histAppended>>]_vars

\* The listing of the three proxies, for a call that gave a filter only
C29_Witness ==
    /\ hPc = "responded"
    /\ parsed.proxy_identifier = <<>>
    /\ ~parsed.all
    /\ parsed.filter = Str_online
    /\ response.kind = "listing"
    /\ Cardinality(response.listed) = 3

-----------------------------------------------------------------------------
(* Properties of the error handling of rotateProxy                          *)

\* The positions of a rotateProxy call whose promise is pending or fulfilled
WorkflowPcs ==
    {"idle", "trigger", "settle", "poll", "pollWait", "fbWait1", "fbFetch1",
     "fbWait2", "fbFetch2", "done"}

\* What workflow k becomes when the request it waits for fails: the rotation
\* GET rejected or unanswered, the status GET failed, getProxies rejected
AfterError(k) ==
    CASE wf[k].pc = "trigger" ->
            {OnTrigger(wf[k], targets[k], outcome) : outcome \in {"httpError", "netError"}}
      [] wf[k].pc = "poll" ->
            {OnStatus(wf[k], targets[k], apiAvail, checkStatus(resp)) :
                resp \in {r \in StatusResponses : r.failed}}
      [] wf[k].pc = "fbFetch1" -> {OnFetch1(wf[k], targets[k], TRUE, <<>>)}
      [] wf[k].pc = "fbFetch2" -> {OnFetch2(wf[k], targets[k], TRUE, <<>>)}
      [] OTHER -> {}

\* C19: no exception escapes rotateProxy: a workflow is never rejected, a
\* failing trigger, status or account request leaves it pending or returned
\* with a result of its target, and rotateMultipleProxies returns a result
\* for every target.
C19_NoWorkflowIsRejected ==
    /\ \A k \in DOMAIN wf :
          /\ wf[k].pc \in WorkflowPcs
          /\ wf[k].pc = "done" => wf[k].result.proxyId = targets[k].id
          /\ \A w \in AfterError(k) :
                /\ w.pc \in WorkflowPcs
                /\ w.pc = "done" => w.result.proxyId = targets[k].id
    /\ ctl.pc = "returned" => Len(ctl.results) = Len(targets)

\* A batch returned with the result of a trigger that got no answer, next to
\* an unconfirmed one
C19_Witness ==
    /\ ctl.pc = "returned"
    /\ Len(ctl.results) = 3
    /\ ctl.results[1].error = AxiosMessage("netError")
    /\ ctl.results[2].newIp = "verification timeout"

-----------------------------------------------------------------------------
(* The polling loop                                                         *)

\* The test the loop applies to the currentIp of a status answer
Accepted(w, currentIp) ==
    currentIp # Absent /\ currentIp # "unknown" /\ currentIp # w.oldIp

\* C21: a workflow sends at most 5 status requests; a status answer ends the
\* call with success and that answer as the new IP exactly when the answer
\* is non-empty, not "unknown" and not the old IP, and the call that has
\* ended sends nothing more.
C21_PollingAcceptsFirstChangedIp ==
    \A k \in DOMAIN wf :
        /\ obs[k].nStatus <= maxVerificationAttempts
        /\ wf[k].pc = "poll" =>
             \A currentIp \in StatusAnswers :
                LET w2 == OnStatus(wf[k], targets[k], apiAvail, currentIp)
                IN  IF Accepted(wf[k], currentIp)
                    THEN /\ w2.pc = "done"
                         /\ w2.result.success
                         /\ w2.result.newIp = currentIp
                    ELSE /\ ~(w2.pc = "done" /\ w2.result.success)
                         /\ w2.pc = "pollWait" <=> wf[k].attempts < maxVerificationAttempts
        /\ wf[k].pc = "done" /\ wf[k].result.success /\ obs[k].nFetch = 0 =>
             /\ obs[k].steps[Len(obs[k].steps)] = "poll"
             /\ wf[k].result.newIp \in StatusAnswers \ {"unknown", wf[k].result.oldIp}

\* A call that succeeded on its third status request, after two answers that
\* were not accepted
C21_Witness ==
    /\ wf[1].pc = "done"
    /\ wf[1].result.success
    /\ wf[1].result.newIp = "ip2"
    /\ wf[1].result.oldIp = "ip1"
    /\ obs[1].nStatus = 3
    /\ obs[1].nFetch = 0

-----------------------------------------------------------------------------
(* The fallback verification                                                *)

FallbackPcs == {"fbWait1", "fbFetch1", "fbWait2", "fbFetch2"}

\* The listing shows the target with the IP it had before the rotation
ShowsOldIp(listing, proxy, oldIp) ==
    \E i \in 1..Len(listing) :
        listing[i].id = proxy.id /\ listing[i].ext_ip = oldIp

\* C22: the account listing is fetched only after the polling loop ended
\* with no new IP (all 5 status requests used when the proxy has a status
\* URL); a workflow fetches at most twice, and it goes on to the second
\* fetch only when the first listing shows the target with its old IP.
C22_FallbackOnlyAfterFruitlessPolling ==
    \A k \in DOMAIN wf :
        /\ obs[k].nFetch <= 2
        /\ wf[k].pc \in FallbackPcs =>
             /\ wf[k].newIp = "pending"
             /\ \E i \in DOMAIN obs[k].steps : obs[k].steps[i] = "settle"
             /\ obs[k].nStatus =
                  IF targets[k].statusByToken \/ targets[k].restartToken
                  THEN maxVerificationAttempts ELSE 0
        /\ wf[k].pc \notin FallbackPcs /\ wf[k].pc # "done" => obs[k].nFetch = 0
        /\ wf[k].pc = "fbFetch1" =>
             /\ obs[k].nFetch = 1
             /\ OnFetch1(wf[k], targets[k], TRUE, <<>>).pc = "done"
             /\ \A listing \in FetchedListings(targets[k]) :
                   OnFetch1(wf[k], targets[k], FALSE, listing).pc = "fbWait2"
                      <=> ShowsOldIp(listing, targets[k], wf[k].oldIp)
        /\ wf[k].pc = "fbFetch2" =>
             /\ OnFetch2(wf[k], targets[k], TRUE, <<>>).pc = "done"
             /\ \A listing \in FetchedListings(targets[k]) :
                   OnFetch2(wf[k], targets[k], FALSE, listing).pc = "done"

\* A call that used all 5 status requests and then fetched the listing twice
C22_Witness ==
    /\ wf[1].pc = "done"
    /\ obs[1].nStatus = maxVerificationAttempts
    /\ obs[1].nFetch = 2

-----------------------------------------------------------------------------
(* The order of the steps of a workflow                                     *)

\* The trigger request of workflow k was answered with a 2xx status
TriggerAccepted(k) == obs[k].trigger \in {"ok", "okErrorBody"}

\* Workflow k has been in the step named pc
Passed(k, pc) == \E i \in DOMAIN obs[k].steps : obs[k].steps[i] = pc

\* C23: a workflow whose trigger was accepted is in the fallback or has
\* returned only after it went through the settle wait and sent at least
\* one status request.
C23_NoStepIsSkipped ==
    \A k \in DOMAIN wf :
        TriggerAccepted(k) /\ wf[k].pc \in FallbackPcs \cup {"done"} =>
            /\ Passed(k, "settle")
            /\ obs[k].nStatus >= 1

\* C24: a workflow sends no status request and fetches no account listing
\* before its trigger request was answered and the 10 s settle wait is over.
C24_VerificationFollowsTriggerAndSettle ==
    \A k \in DOMAIN wf :
        /\ wf[k].pc \in {"idle", "trigger", "settle"} =>
             obs[k].nStatus = 0 /\ obs[k].nFetch = 0
        /\ obs[k].nStatus + obs[k].nFetch > 0 =>
             /\ TriggerAccepted(k)
             /\ Passed(k, "trigger")
             /\ Passed(k, "settle")
             /\ obs[k].steps[1] = "trigger"
             /\ obs[k].steps[2] = "settle"
             /\ obs[k].waitedMs >= SettleWaitMs

\* The first status request is out, 10 s after the trigger was answered
C24_Witness ==
    /\ wf[1].pc = "poll"
    /\ obs[1].nStatus = 1
    /\ obs[1].steps = <<"trigger", "settle">>
    /\ obs[1].waitedMs = SettleWaitMs

-----------------------------------------------------------------------------
(* Targets that cannot be rotated                                           *)

NoTokenMessage == "No rotation token available for this proxy"

\* The proxy has neither a rotation URL nor a restart token
NoRotationToken(proxy) == ~proxy.restartByToken /\ ~proxy.restartToken

\* The positions in which a workflow has a request in flight or a timer set
RequestingPcs == WorkflowPcs \ {"idle", "done"}

\* C25: the workflow of a proxy without rotation URL and restart token
\* returns at its start, with success=false and the missing-token message
\* and without sending a request; the other targets of the batch have their
\* rotation URL requested all the same and every target gets its result.
C25_MissingTokenFailsThatTargetOnly ==
    /\ [](\A k \in DOMAIN wf :
            /\ NoRotationToken(targets[k]) =>
                 /\ wf[k].pc \notin RequestingPcs
                 /\ wf[k].pc = "done" =>
                      /\ ~wf[k].result.success
                      /\ wf[k].result.error = NoTokenMessage
                      /\ wf[k].result.proxyId = targets[k].id
            /\ ~NoRotationToken(targets[k]) /\ wf[k].pc = "done" =>
                 wf[k].result.error # NoTokenMessage
            /\ ctl.pc = "returned" =>
                 wf[k].pc = "done" /\ ctl.results[k] = wf[k].result)
    /\ [][\A k \in Workflows :
            (k \in DOMAIN wf /\ wf[k].pc = "idle" /\ wf'[k].pc # "idle") =>
                IF NoRotationToken(targets[k])
                THEN wf'[k].pc = "done"
                ELSE wf'[k].pc = "trigger"]_vars

\* A batch of three has returned: the first target had no token, the second
\* was rotated, the third was not confirmed
C25_Witness ==
    /\ ctl.pc = "returned"
    /\ Len(ctl.results) = 3
    /\ NoRotationToken(targets[1])
    /\ ctl.results[1].error = NoTokenMessage
    /\ ctl.results[2].success
    /\ ctl.results[3].newIp = "verification timeout"

-----------------------------------------------------------------------------
(* The dongle rule of the resolver                                          *)

\* The indices of rProxies whose name has a country token preceded by a
\* numeric token that starts with the identifier
NumericPrefixIdx ==
    {i \in 1..Len(rProxies) :
        LET first == NamePart(rProxies[i].name, 0)
        IN  /\ first # <<>>
            /\ \A j \in 1..Len(first) : IsDigit(first[j])
            /\ NamePart(rProxies[i].name, 1) # <<>>
            /\ StartsWith(first, rIdentifier)}

\* C26: an identifier that is a prefix of the numeric token before the
\* country code in exactly one proxy's name, and is no proxy's name or id,
\* resolves to exactly that proxy; so [2_UA_y (p1), 12_DE_abc (p2)] with "2"
\* resolves to [p1].
C26_NumericPrefixOfOneProxyResolvesToIt ==
    (rPc = "returned" /\ rIdentifier # <<>>) =>
        \A i \in NumericPrefixIdx :
            (NumericPrefixIdx = {i} /\ NoNameOrIdIsIdentifier) => rFound = <<rProxies[i]>>

-----------------------------------------------------------------------------
(* Termination                                                              *)

\* C31: when every request returns or times out, every rotateProxy call
\* reaches its result and rotateMultipleProxies returns, with one result for
\* each target.
C31_BatchEventuallyReturnsAllResults ==
    <>( /\ ctl.pc = "returned"
        /\ Len(ctl.results) = Len(targets)
        /\ \A k \in DOMAIN wf : wf[k].pc = "done" )

\* A batch of four has returned; the first workflow used all its status
\* requests and both fallback fetches without finding a new IP
C31_Witness ==
    /\ ctl.pc = "returned"
    /\ Len(ctl.results) = 4
    /\ targets[1].restartToken
    /\ ctl.results[1].newIp = "verification timeout"
    /\ \A k \in 2..4 : ~ctl.results[k].success

-----------------------------------------------------------------------------
(* The account listing of a rotate operation                                *)

\* C33: every rotate operation that passes validation and the token check
\* fetches the account listing first, holding no listing from an earlier
\* operation, and rotates only proxies of the listing it fetched; when the
\* fetch fails the operation answers with the error at once: it does not
\* fetch again, starts no rotation and saves nothing.
C33_ListingFetchedAnewAndFailureReported ==
    [][ /\ (hPc \in {"idle", "responded"} /\ hPc' \notin {"idle", "responded"}) =>
              hPc' = "fetching" /\ fetched' = <<>>
        /\ hPc = "fetching" =>
              /\ hPc' \in {"responded", "rotating"}
              /\ fetched = <<>>
              /\ hPc' = "rotating" =>
                    /\ Len(targets') >= 1
                    /\ \A k \in DOMAIN targets' :
                          \E i \in DOMAIN fetched' : fetched'[i] = targets'[k]
              /\ fetched' = <<>> =>
                    /\ hPc' = "responded"
                    /\ response'.kind \in {"error", "noProxies"}
                    /\ targets' = <<>>
                    /\ wf' = <<>>
                    /\ UNCHANGED <<histFile, histAppended>>
        /\ hPc' = "rotating" => hPc \in {"fetching", "rotating"} ]_vars

\* An operation with all set whose fetch of the account listing failed
C33_Witness ==
    /\ hPc = "responded"
    /\ response.kind = "error"
    /\ fetched = <<>>
    /\ parsed.all
    /\ parsed.wellTyped
    /\ tokenStore # Absent

-----------------------------------------------------------------------------
(* The time a workflow spends waiting                                       *)

\* The default of max_wait_time in RotateModemArgsSchema
DefaultMaxWaitMs == 30000

\* C34: the timed waits of one workflow (settle wait, waits between polls,
\* fallback waits) add up to no more than max_wait_time, 30000 ms by default.
C34_WaitsStayWithinMaxWaitTime ==
    \A k \in DOMAIN obs : obs[k].waitedMs <= DefaultMaxWaitMs

-----------------------------------------------------------------------------
(* coronium_rotate_modem without a stored token                             *)

-----------------------------------------------------------------------------
(* Filters narrow                                                           *)

\* a is b with some elements left out: the same records in the same order
\* (the records of an account listing differ in their ids)
SubList(a, b) ==
    \E f \in [DOMAIN a -> DOMAIN b] :
        /\ \A i \in DOMAIN a : b[f[i]] = a[i]
        /\ \A i, j \in DOMAIN a : i < j => f[i] < f[j]

\* C36: applyFilter returns a sub-list of its input, in the same order, and
\* the input itself for a token it does not recognize; the proxies a call
\* with an identifier rotates are among those its identifier resolved to.
C36_FiltersOnlyNarrow ==
    (fetched # <<>> /\ parsed.wellTyped) =>
        LET step1 == Step1Targets(fetched, parsed, NowMs)
            step2 == Step2Targets(step1, parsed, NowMs)
        IN  /\ SubList(applyFilter(fetched, parsed.filter, NowMs), fetched)
            /\ SubList(step2, step1)
            /\ ~IsFilterToken(parsed.filter) =>
                  /\ applyFilter(fetched, parsed.filter, NowMs) = fetched
                  /\ step2 = step1
            /\ (parsed.all \/ parsed.proxy_identifier # <<>>) =>
                  /\ SubList(targets, step2)
                  /\ SubList(targets, step1)

\* Identifier "us" resolved to two proxies, the filter online left one of
\* them, which is being rotated
C36_Witness ==
    /\ hPc = "rotating"
    /\ ~parsed.all
    /\ parsed.proxy_identifier = <<"u", "s">>
    /\ parsed.filter = Str_online
    /\ Len(Step1Targets(fetched, parsed, NowMs)) = 2
    /\ Len(targets) = 1

-----------------------------------------------------------------------------
(* One trigger request per target                                           *)

\* C37: in one rotate operation the rotation URL of a proxy is requested at
\* most once, and only for the proxies the operation selected: the targets
\* are distinct proxies of the fetched listing and stay the same while the
\* operation rotates; there is one rotateProxy call per target, which sends
\* its trigger request only at its start and never starts again.
C37_OneTriggerPerSelectedProxy ==
    /\ []( /\ \A i, j \in DOMAIN targets : i # j => targets[i].id # targets[j].id
           /\ \A k \in DOMAIN targets :
                 \E i \in DOMAIN fetched : fetched[i] = targets[k]
           /\ DOMAIN wf = DOMAIN targets )
    /\ [][ /\ (hPc = "rotating" /\ hPc' \in {"rotating", "verifying"}) =>
                 targets' = targets
           /\ \A k \in Workflows :
                 /\ ( /\ k \in DOMAIN wf'
                      /\ wf'[k].pc = "trigger"
                      /\ (k \in DOMAIN wf => wf[k].pc # "trigger") ) =>
                        /\ k \in DOMAIN wf
                        /\ wf[k].pc = "idle"
                        /\ hPc = "rotating"
                 /\ ( /\ k \in DOMAIN wf
                      /\ wf[k].pc # "idle"
                      /\ hPc = "rotating"
                      /\ hPc' \in {"rotating", "verifying"} ) =>
                        /\ k \in DOMAIN wf'
                        /\ wf'[k].pc # "idle" ]_vars

\* A call with all set: the two proxies with a rotation URL have had it
\* requested, the third returned for lack of a token
C37_Witness ==
    /\ hPc = "rotating"
    /\ parsed.all
    /\ Len(targets) = 3
    /\ wf[1].pc = "settle"
    /\ wf[2].pc = "settle"
    /\ wf[3].pc = "done"
    /\ wf[3].result.error = NoTokenMessage

-----------------------------------------------------------------------------
\* The token tools: coronium_get_token and coronium_check_token, next to
\* coronium_rotate_modem, over the one token store of the process

\* The tokens the account API can issue for a login
IssuedTokens == {"tok"}

\* What the caller passes as credentials, after the environment defaults:
\* ill-typed arguments, no login or no password, a login that is no e-mail
\* address, or a login and a password
CredentialCases == {"illTyped", "missing", "badEmail", "given"}

\* A token tool call holds nothing of an earlier coronium_rotate_modem
\* call: that call's arguments, listing, targets and workflows were its
\* locals and are gone once it has answered
NoRotateLocals ==
    /\ parsed' = MkArgs(<<>>, FALSE, <<>>, TRUE, TRUE)
    /\ fetched' = <<>>
    /\ targets' = <<>> /\ apiAvail' = FALSE /\ wf' = <<>> /\ obs' = <<>>
    /\ ctl' = [pc |-> "off", i |-> 0, results |-> <<>>]

\* coronium_get_token up to the call of api.getToken
GetTokenCall ==
    /\ hPc \in {"idle", "responded"}
    /\ \E creds \in CredentialCases :
          CASE creds = "illTyped" -> Respond(Message("invalid", <<>>))
            [] creds = "missing"  -> Respond(Message("missingCredentials", <<>>))
            [] creds = "badEmail" -> Respond(Message("invalidEmail", <<>>))
            [] OTHER -> hPc' = "authenticating" /\ response' = NoResponse
    /\ NoRotateLocals
    /\ UNCHANGED <<tokenStore, rvars, bvars, hvars>>

\* api.getToken settled: `issued` is response.data.token, Absent when the
\* API sent none or the request failed (getToken throws, the handler's
\* catch answers); only a token is stored
OnGetToken(issued) ==
    IF issued # Absent
    THEN tokenStore' = issued /\ Respond(Message("authenticated", <<>>))
    ELSE UNCHANGED tokenStore /\ Respond(Message("authFailed", <<>>))

GetTokenAnswer ==
    /\ hPc = "authenticating"
    /\ \E issued \in IssuedTokens \cup {Absent} : OnGetToken(issued)
    /\ UNCHANGED <<parsed, fetched, rvars, bvars, wvars, hvars>>

\* The token argument of coronium_check_token: none, the issued tokens, or
\* one that was never issued
TokenArgs == {Absent, "tok", "old"}

\* coronium_check_token up to the call of api.checkToken: the token is the
\* argument or else the stored one
CheckTokenCall ==
    /\ hPc \in {"idle", "responded"}
    /\ \E wellTyped \in BOOLEAN, arg \in TokenArgs :
          LET token == IF arg # Absent THEN arg ELSE tokenStore
          IN  IF ~wellTyped THEN Respond(Message("invalid", <<>>))
              ELSE IF token = Absent
                   THEN Respond(Message("noTokenAvailable", <<>>))
              ELSE hPc' = "checking" /\ response' = NoResponse
    /\ NoRotateLocals
    /\ UNCHANGED <<tokenStore, rvars, bvars, hvars>>

\* The same answer handling clearing the store when the token is found
\* invalid
OnCheckTokenAutoClear(isValid) ==
    IF isValid
    THEN UNCHANGED tokenStore /\ Respond(Message("tokenValid", <<>>))
    ELSE tokenStore' = Absent /\ Respond(Message("tokenInvalid", <<>>))

\* api.checkToken settled (it never throws): the answer is reported and the
\* store is left alone, also for an invalid token
OnCheckToken(isValid) ==
    /\ UNCHANGED tokenStore
    /\ IF isValid THEN Respond(Message("tokenValid", <<>>))
                  ELSE Respond(Message("tokenInvalid", <<>>))

CheckTokenAnswer ==
    /\ hPc = "checking"
    /\ \E isValid \in BOOLEAN : OnCheckToken(isValid)
    /\ UNCHANGED <<parsed, fetched, rvars, bvars, wvars, hvars>>

\* The process starts with no token on disk: every token the store holds
\* later was put there by a tool call
InitToken ==
    /\ NoRetry
    /\ NoResolve
    /\ NoRotation
    /\ EmptyHistory
    /\ tokenStore = Absent
    /\ hPc = "idle"
    /\ parsed = MkArgs(<<>>, FALSE, <<>>, TRUE, TRUE)
    /\ fetched = <<>>
    /\ response = NoResponse

NextToken ==
    \/ GetTokenCall
    \/ GetTokenAnswer
    \/ CheckTokenCall
    \/ CheckTokenAnswer
    \/ NextHandler

SpecToken == InitToken /\ [][NextToken]_vars

\* C39: the stored token changes only in the step in which a
\* coronium_get_token call answers "authenticated", and then to a token the
\* API issued; a step answering a failed coronium_get_token or any
\* coronium_check_token answer (valid, invalid, none available), and every
\* step of coronium_rotate_modem, leaves the stored token as it was
C39_TokenChangesOnlyOnSuccessfulGetToken ==
    [][/\ tokenStore' # tokenStore =>
             /\ hPc = "authenticating"
             /\ response'.kind = "authenticated"
             /\ tokenStore' \in IssuedTokens
       /\ (hPc' = "responded" /\ response'.kind \in
              {"authFailed", "missingCredentials", "invalidEmail",
               "tokenValid", "tokenInvalid", "noTokenAvailable"})
             => tokenStore' = tokenStore
       /\ (hPc \in {"fetching", "rotating", "verifying", "checking"}
              \/ hPc' \in {"fetching", "rotating", "verifying", "checking"})
             => tokenStore' = tokenStore]_vars

\* The store holds a new token after a successful coronium_get_token, and
\* a rotation made with it has been answered
C39_Witness ==
    /\ tokenStore = "tok"
    /\ hPc = "responded"
    /\ response.kind \in {"tokenInvalid", "authFailed"}
    /\ Len(histAppended) > 0

=============================================================================
